---- MODULE Spec2Model ----
(***************************************************************************)
(* Bfck: a Brainfuck interpreter with an interactive debugger.             *)
(*                                                                         *)
(* The module models                                                       *)
(*   - the analyser (codeAnalyser.go): source text -> Operators/Auxiliary  *)
(*     with merged runs, cancellation and bracket jump indices;            *)
(*   - the tape (memory.go): a chain of 1024-cell blocks;                  *)
(*   - the engine (CodeRunner): Run/Continue/Step/Reset with breakpoints,  *)
(*     watchpoints, the stop point and until mode;                         *)
(*   - the debug shell's command loop as far as it drives the engine.      *)
(*                                                                         *)
(* Go slices are 0-based, TLA+ sequences are 1-based: a Go index i is the  *)
(* TLA+ position i+1.  Values that the code stores (jump indices, line     *)
(* begins, codeIndex, stopIndex) keep their Go (0-based) value.            *)
(***************************************************************************)
EXTENDS Integers, Sequences, FiniteSets, TLC

VARIABLES
  codeText,   \* the source text handed to Analyse, a sequence of characters
  an,         \* Analyse in progress: the analyser struct, ret, err, position
  tape,       \* a Memory used on its own: the nodes of the chain, the current one
  written,    \* the bytes the caller has put on the tape, by logical address
  address,    \* the logical address the caller has moved the pointer to
  tapeOps,    \* number of tape operations made so far
  codeRunner, \* the CodeRunner of the debug session
  stdin,      \* bytes of standard input not yet read by the program
  output,     \* bytes the program wrote to standard output since the last Reset
  CodeRunning, \* the debug shell's flag
  call,       \* the shell command in progress and the engine call it is in
  lastRet,    \* return code of the last Run/Continue/Step, "none" after Reset
  plain,      \* the same program run without interruption, one instruction
              \* for every instruction codeRunner executes
  dwellHit,   \* a watch suspension was returned since the pointer last moved
  bpReported, \* a breakpoint suspension was returned and nothing executed since
  std,        \* the source text interpreted character by character
  untilAt,    \* the program counter at which until mode was armed, or -1
  command,    \* the last call on the configuration of the CodeRunner
  message     \* the message that call returned

----------------------------------------------------------------------------
(* Bounds *)

\* longest source text enumerated exhaustively
MaxLen == 4

\* number of operations applied to a tape used on its own
MaxTapeOps == 5

\* largest count given to the shell's step command
MaxStepTimes == 2

\* watch addresses offered to the shell's watch command: 0..MaxWatchAddress
MaxWatchAddress == 0

\* the shell's stop command is given operator index 0 or MaxStopIndex
MaxStopIndex == 3

\* the texts run beside the language reference hold at most MaxEquivLen
\* characters, a few samples apart
MaxEquivLen == 3

\* a run is followed while its pointer is within MaxPointer cells of cell 0
MaxPointer == 6

\* largest address, of either sign, given to AddWatch on its own
MaxAddress == 1

\* largest length given to the peek command on a tape used on its own
MaxPeekLength == 3

----------------------------------------------------------------------------
(* Characters.  A character is a one-element string.  "x" is a one-byte     *)
(* non-operator character, "E" stands for a non-operator character whose    *)
(* UTF-8 encoding takes two bytes.                                          *)

Alphabet == {"+", "-", "<", ">", "[", "]", ".", ",", "\n", "x", "E"}

ByteLen(char) == IF char = "E" THEN 2 ELSE 1

----------------------------------------------------------------------------
(* code.go *)

Operator ==
  {"OpAdd", "OpSub", "OpMoveLeft", "OpMoveRight", "OpLeftBracket",
   "OpRightBracket", "OpInput", "OpOutput", "Invalid"}

ToOperator(char) ==
  CASE char = "+" -> "OpAdd"
    [] char = "-" -> "OpSub"
    [] char = "<" -> "OpMoveLeft"
    [] char = ">" -> "OpMoveRight"
    [] char = "[" -> "OpLeftBracket"
    [] char = "]" -> "OpRightBracket"
    [] char = "." -> "OpOutput"
    [] char = "," -> "OpInput"
    [] OTHER -> "Invalid"

Reverse(op) ==
  CASE op = "OpAdd" -> "OpSub"
    [] op = "OpSub" -> "OpAdd"
    [] op = "OpMoveLeft" -> "OpMoveRight"
    [] op = "OpMoveRight" -> "OpMoveLeft"
    [] OTHER -> "Invalid"

\* code.New
NewCode(debugFlag) ==
  [isNil |-> FALSE, Operators |-> <<>>, Auxiliary |-> <<>>, CodeCount |-> 0,
   LineCount |-> 0, LineBegins |-> <<>>]

\* a nil *code.Code
NilCode ==
  [isNil |-> TRUE, Operators |-> <<>>, Auxiliary |-> <<>>, CodeCount |-> 0,
   LineCount |-> 0, LineBegins |-> <<>>]

----------------------------------------------------------------------------
(* bracketNotCloseError.go *)

NoError == [kind |-> "nil"]

EmptyError == [kind |-> "CodeIsEmpty"]

Spaces(n) == [i \in 1..n |-> " "]

\* New(lineCount, columnIndex, errorLine): the line, then a caret under the
\* column
BracketNotCloseError(lineCount, columnIndex, errorLine) ==
  [kind |-> "BracketNotClose",
   line |-> lineCount,
   errorString |->
     (IF errorLine[Len(errorLine)] # "\n"
        THEN Append(errorLine, "\n") ELSE errorLine)
     \o Spaces(columnIndex) \o <<"^", "\n">>]

----------------------------------------------------------------------------
(* codeAnalyser.go.  An analysis state s is                                 *)
(*   s.a      the analyser struct                                           *)
(*   s.ret    the Code under construction (ret of Analyse)                  *)
(*   s.err    the error of Analyse                                          *)
(*   s.pos    the number of characters of codeText consumed by the loops    *)
(*   s.status "scan" while the loops run, then "done"                       *)

\* strings.Lines: a line ends with its "\n" or with the text
LineEnd(text, i) ==
  IF i >= Len(text) THEN i
  ELSE CHOOSE j \in i..Len(text) :
         /\ j = Len(text) \/ text[j] = "\n"
         /\ \A k \in i..(j - 1) : text[k] # "\n"

AtLineStart(text, p) == p = 1 \/ text[p - 1] = "\n"

\* pushOperator that starts the operand at 0
pushOperatorFromZero(s, op) ==
  [s EXCEPT !.ret.Operators = Append(@, op), !.ret.Auxiliary = Append(@, 0)]

pushOperator(s, op) ==
  [s EXCEPT !.ret.Operators = Append(@, op), !.ret.Auxiliary = Append(@, 1)]

\* reduceLastOperator that keeps the line marked non-empty after a removal
reduceLastOperatorNoLineReset(s) ==
  LET n == Len(s.ret.Auxiliary)
      reduced == [s EXCEPT !.ret.Auxiliary[n] = @ - 1]
  IN  IF reduced.ret.Auxiliary[n] # 0 THEN reduced
      ELSE
        LET ops == SubSeq(s.ret.Operators, 1, n - 1)
            aux == SubSeq(s.ret.Auxiliary, 1, n - 1)
        IN  [s EXCEPT
               !.ret.Operators = ops,
               !.ret.Auxiliary = aux,
               !.a.lastOperator =
                  IF Len(ops) = 0 THEN "Invalid" ELSE ops[Len(ops)]]

\* reduceLastOperator that never removes the operator
reduceLastOperatorKeepZero(s) ==
  [s EXCEPT !.ret.Auxiliary[Len(s.ret.Auxiliary)] = @ - 1]

reduceLastOperator(s) ==
  LET n == Len(s.ret.Auxiliary)
      reduced == [s EXCEPT !.ret.Auxiliary[n] = @ - 1]
  IN  IF reduced.ret.Auxiliary[n] # 0 THEN reduced
      ELSE
        LET ops == SubSeq(s.ret.Operators, 1, n - 1)
            aux == SubSeq(s.ret.Auxiliary, 1, n - 1)
            lb  == s.ret.LineBegins
        IN  [s EXCEPT
               !.ret.Operators = ops,
               !.ret.Auxiliary = aux,
               !.a.lineIsEmpty =
                  IF s.a.debugFlag /\ lb[Len(lb)] = Len(ops) THEN TRUE ELSE @,
               !.a.lastOperator =
                  IF Len(ops) = 0 THEN "Invalid" ELSE ops[Len(ops)]]

\* processSimpleOperator that cancels but never merges equal operators
processSimpleOperatorNoMerge(s, op) ==
  LET forceNewOperator == s.a.debugFlag /\ s.a.lineIsEmpty
  IN  IF ~forceNewOperator /\ s.a.lastOperator = Reverse(op)
        THEN reduceLastOperator(s)
      ELSE [pushOperator(s, op) EXCEPT
              !.a.lastOperator = op, !.a.lineIsEmpty = FALSE]

processSimpleOperator(s, op) ==
  LET forceNewOperator == s.a.debugFlag /\ s.a.lineIsEmpty
  IN  IF ~forceNewOperator /\ s.a.lastOperator = op
        THEN [s EXCEPT !.ret.Auxiliary[Len(s.ret.Auxiliary)] = @ + 1]
      ELSE IF ~forceNewOperator /\ s.a.lastOperator = Reverse(op)
        THEN reduceLastOperator(s)
      ELSE [pushOperator(s, op) EXCEPT
              !.a.lastOperator = op, !.a.lineIsEmpty = FALSE]

\* setJumpIndex that stores the index of the matching bracket itself
setJumpIndexAtBracket(s) ==
  LET stack == s.a.bracketIndexStack
  IN  IF Len(stack) = 0
        THEN [s EXCEPT !.err = BracketNotCloseError(
                          s.a.lineCount, s.a.columnIndex, s.a.currentLine)]
      ELSE
        LET leftBracketIndex == stack[Len(stack)]
        IN  [s EXCEPT
               !.a.bracketIndexStack = SubSeq(stack, 1, Len(stack) - 1),
               !.ret.Auxiliary =
                  [[@ EXCEPT ![Len(@)] = leftBracketIndex]
                      EXCEPT ![leftBracketIndex + 1] = Len(s.ret.Operators) - 1]]

\* called with the right bracket already appended
setJumpIndex(s) ==
  LET stack == s.a.bracketIndexStack
  IN  IF Len(stack) = 0
        THEN [s EXCEPT !.err = BracketNotCloseError(
                          s.a.lineCount, s.a.columnIndex, s.a.currentLine)]
      ELSE
        LET leftBracketIndex == stack[Len(stack)]
        IN  [s EXCEPT
               !.a.bracketIndexStack = SubSeq(stack, 1, Len(stack) - 1),
               !.ret.Auxiliary =
                  [[@ EXCEPT ![Len(@)] = leftBracketIndex + 1]
                      EXCEPT ![leftBracketIndex + 1] = Len(s.ret.Operators)]]

analyseChar(s, char) ==
  LET op == ToOperator(char)
  IN  CASE op \in {"OpAdd", "OpSub", "OpMoveLeft", "OpMoveRight"} ->
             processSimpleOperator(s, op)
        [] op \in {"OpInput", "OpOutput"} ->
             [pushOperator(s, op) EXCEPT
                !.a.lastOperator = op, !.a.lineIsEmpty = FALSE]
        [] op = "OpLeftBracket" ->
             [pushOperator(
                [s EXCEPT !.a.bracketIndexStack =
                             Append(@, Len(s.ret.Operators))], op)
              EXCEPT !.a.lastOperator = op, !.a.lineIsEmpty = FALSE]
        [] op = "OpRightBracket" ->
             LET j == setJumpIndex(pushOperator(s, op))
             IN  IF j.err # NoError THEN j
                 ELSE [j EXCEPT !.a.lastOperator = op, !.a.lineIsEmpty = FALSE]
        [] OTHER -> s

\* adjustLineBegins that also gives up the last line that has an instruction
adjustLineBeginsOneMore(result) ==
  LET lb == result.LineBegins
      AllPast(k) == \A i \in k..Len(lb) : lb[i] >= Len(result.Operators)
      first == CHOOSE k \in 1..(Len(lb) + 1) :
                 AllPast(k) /\ \A m \in 1..(k - 1) : ~AllPast(m)
  IN  [result EXCEPT
         !.LineBegins = [i \in 1..Len(lb) |-> IF i >= first - 1 THEN -1 ELSE lb[i]]]

adjustLineBegins(result) ==
  LET lb == result.LineBegins
      \* the entries from position k on are all >= len(Operators)
      AllPast(k) == \A i \in k..Len(lb) : lb[i] >= Len(result.Operators)
      first == CHOOSE k \in 1..(Len(lb) + 1) :
                 AllPast(k) /\ \A m \in 1..(k - 1) : ~AllPast(m)
  IN  [result EXCEPT
         !.LineBegins = [i \in 1..Len(lb) |-> IF i >= first THEN -1 ELSE lb[i]]]

\* byte offset of position p within the line that starts at position from
RECURSIVE ByteOffset(_, _, _)
ByteOffset(text, from, p) ==
  IF p <= from THEN 0
  ELSE ByteOffset(text, from, p - 1) + ByteLen(text[p - 1])

RECURSIVE LineStart(_, _)
LineStart(text, p) ==
  IF AtLineStart(text, p) THEN p ELSE LineStart(text, p - 1)

\* number of the line (1-based) that holds position p
LineNumber(text, p) ==
  1 + Cardinality({i \in 1..(p - 1) : text[i] = "\n"})

checkBracketMatch(s, codeText_) ==
  LET unclosedBracketCount == Len(s.a.bracketIndexStack)
      opens == {p \in 1..Len(codeText_) : codeText_[p] = "["}
      \* the position at which the countdown reaches 0
      hit == CHOOSE p \in opens :
               Cardinality({q \in opens : q <= p}) = unclosedBracketCount
      from == LineStart(codeText_, hit)
  IN  IF unclosedBracketCount = 0 THEN NoError
      ELSE BracketNotCloseError(
             LineNumber(codeText_, hit),
             ByteOffset(codeText_, from, hit),
             SubSeq(codeText_, from, LineEnd(codeText_, hit)))

\* Analyse up to the loops: the empty text returns at once
AnalyseBegin(codeText_, debugFlag) ==
  [a |-> [debugFlag |-> debugFlag, lineCount |-> 0, columnIndex |-> 0,
          currentLine |-> <<>>, lineIsEmpty |-> TRUE,
          lastOperator |-> "Invalid", bracketIndexStack |-> <<>>],
   ret |-> NewCode(debugFlag),
   err |-> IF Len(codeText_) = 0 THEN EmptyError ELSE NoError,
   pos |-> 0,
   status |-> IF Len(codeText_) = 0 THEN "done" ELSE "scan"]

\* AnalyseChar that counts the columns of a line from 1
AnalyseCharColumnFromOne(s, codeText_) ==
  LET p == s.pos + 1
      char == codeText_[p]
      lined ==
        IF AtLineStart(codeText_, p)
          THEN [s EXCEPT
                  !.ret.LineBegins =
                     IF s.a.debugFlag THEN Append(@, Len(s.ret.Operators))
                     ELSE @,
                  !.a.currentLine = SubSeq(codeText_, p, LineEnd(codeText_, p)),
                  !.a.lineCount = @ + 1,
                  !.a.lineIsEmpty = TRUE,
                  !.a.columnIndex = 0]
        ELSE s
      t == analyseChar([lined EXCEPT !.a.columnIndex = @ + 1], char)
  IN  IF t.err # NoError
        THEN [t EXCEPT !.ret = NilCode, !.status = "done"]
      ELSE [t EXCEPT !.pos = p]

\* one character of the loops of Analyse, with the line bookkeeping when
\* the character is the first of its line
AnalyseChar(s, codeText_) ==
  LET p == s.pos + 1
      char == codeText_[p]
      lined ==
        IF AtLineStart(codeText_, p)
          THEN [s EXCEPT
                  !.ret.LineBegins =
                     IF s.a.debugFlag THEN Append(@, Len(s.ret.Operators))
                     ELSE @,
                  !.a.currentLine = SubSeq(codeText_, p, LineEnd(codeText_, p)),
                  !.a.lineCount = @ + 1,
                  !.a.lineIsEmpty = TRUE,
                  !.a.columnIndex = -1]
        ELSE s
      t == analyseChar([lined EXCEPT !.a.columnIndex = @ + 1], char)
  IN  IF t.err # NoError
        THEN [t EXCEPT !.ret = NilCode, !.status = "done"]
      ELSE [t EXCEPT !.pos = p]

\* Analyse after the loops
AnalyseEnd(s, codeText_) ==
  LET counted == [s.ret EXCEPT !.LineCount = s.a.lineCount,
                               !.CodeCount = Len(s.ret.Operators)]
      adjusted == IF s.a.debugFlag THEN adjustLineBegins(counted) ELSE counted
      bracketErr == checkBracketMatch(s, codeText_)
  IN  IF bracketErr # NoError
        THEN [s EXCEPT !.ret = NilCode, !.err = bracketErr, !.status = "done"]
      ELSE IF Len(adjusted.Operators) = 0
        THEN [s EXCEPT !.ret = NilCode, !.err = EmptyError, !.status = "done"]
      ELSE [s EXCEPT !.ret = adjusted, !.status = "done"]

AnalyseNext(s, codeText_) ==
  IF s.pos < Len(codeText_) THEN AnalyseChar(s, codeText_)
  ELSE AnalyseEnd(s, codeText_)

\* at most n steps of the loops of Analyse and its end, the first half of
\* them and then the rest
RECURSIVE AnalyseFrom(_, _, _)
AnalyseFrom(s, codeText_, n) ==
  IF s.status = "done" THEN s
  ELSE IF n = 1 THEN AnalyseNext(s, codeText_)
  ELSE AnalyseFrom(AnalyseFrom(s, codeText_, n \div 2), codeText_, n - (n \div 2))

\* one step for every character and one for the end
Analyse(codeText_, debugFlag) ==
  AnalyseFrom(AnalyseBegin(codeText_, debugFlag), codeText_, Len(codeText_) + 1)

----------------------------------------------------------------------------
(* memory.go.  A Memory value is one node of a doubly linked chain; the     *)
(* model keeps the nodes in allocation order, a node reference is its       *)
(* position and 0 is nil.  m.cur is the node the owner holds.  The cells of *)
(* a node are zero when made; the model stores the nonzero ones only.       *)

MemoryBlockSize == 1024

ByteMod == 256

EmptyCells == [i \in {} |-> 0]

CellAt(cells, index) == IF index \in DOMAIN cells THEN cells[index] ELSE 0

SetCell(cells, index, value) ==
  IF value = 0
    THEN [i \in DOMAIN cells \ {index} |-> cells[i]]
  ELSE [i \in DOMAIN cells \cup {index} |->
          IF i = index THEN value ELSE cells[i]]

NewNode ==
  [cells |-> EmptyCells, ptr |-> MemoryBlockSize \div 2, prev |-> 0, next |-> 0]

NewMemory == [nodes |-> <<NewNode>>, cur |-> 1]

RECURSIVE PeekFrom(_, _, _)
PeekFrom(nodes, current, index) ==
  IF index < 0
    THEN IF nodes[current].prev = 0 THEN 0
         ELSE PeekFrom(nodes, nodes[current].prev, index + MemoryBlockSize)
  ELSE IF index >= MemoryBlockSize
    THEN IF nodes[current].next = 0 THEN 0
         ELSE PeekFrom(nodes, nodes[current].next, index - MemoryBlockSize)
  ELSE CellAt(nodes[current].cells, index)

Peek(m, offset) == PeekFrom(m.nodes, m.cur, m.nodes[m.cur].ptr + offset)

PeekBytes(m, offset, length) == [i \in 1..length |-> Peek(m, offset + i - 1)]

Poke(m, value) ==
  [m EXCEPT !.nodes[m.cur].cells = SetCell(@, m.nodes[m.cur].ptr, value)]

\* Add that stops at the largest byte instead of wrapping
AddSaturating(m, value) ==
  [m EXCEPT !.nodes[m.cur].cells =
     SetCell(@, m.nodes[m.cur].ptr,
             IF CellAt(@, m.nodes[m.cur].ptr) + value >= ByteMod
               THEN ByteMod - 1
             ELSE CellAt(@, m.nodes[m.cur].ptr) + value)]

\* cells[ptr] += byte(value)
Add(m, value) ==
  [m EXCEPT !.nodes[m.cur].cells =
     SetCell(@, m.nodes[m.cur].ptr,
             (CellAt(@, m.nodes[m.cur].ptr) + (value % ByteMod)) % ByteMod)]

\* cells[ptr] -= byte(value)
Sub(m, value) ==
  [m EXCEPT !.nodes[m.cur].cells =
     SetCell(@, m.nodes[m.cur].ptr,
             (CellAt(@, m.nodes[m.cur].ptr) + ByteMod - (value % ByteMod))
                % ByteMod)]

\* the first loop of MovePtr, making a previous node that does not point
\* back to the node it was made for
RECURSIVE MoveToPrevUnlinked(_)
MoveToPrevUnlinked(m) ==
  IF m.nodes[m.cur].ptr >= 0 THEN m
  ELSE
    LET made ==
          IF m.nodes[m.cur].prev # 0 THEN m
          ELSE [m EXCEPT
                  !.nodes = Append([@ EXCEPT ![m.cur].prev = Len(m.nodes) + 1],
                                   NewNode)]
        prev == made.nodes[m.cur].prev
    IN  MoveToPrevUnlinked(
          [made EXCEPT
             !.nodes[prev].ptr = made.nodes[m.cur].ptr + MemoryBlockSize,
             !.cur = prev])

\* the first loop of MovePtr
RECURSIVE MoveToPrev(_)
MoveToPrev(m) ==
  IF m.nodes[m.cur].ptr >= 0 THEN m
  ELSE
    LET made ==
          IF m.nodes[m.cur].prev # 0 THEN m
          ELSE [m EXCEPT
                  !.nodes = Append([@ EXCEPT ![m.cur].prev = Len(m.nodes) + 1],
                                   [NewNode EXCEPT !.next = m.cur])]
        prev == made.nodes[m.cur].prev
    IN  MoveToPrev([made EXCEPT
                      !.nodes[prev].ptr = made.nodes[m.cur].ptr + MemoryBlockSize,
                      !.cur = prev])

\* the second loop of MovePtr
RECURSIVE MoveToNext(_)
MoveToNext(m) ==
  IF m.nodes[m.cur].ptr < MemoryBlockSize THEN m
  ELSE
    LET made ==
          IF m.nodes[m.cur].next # 0 THEN m
          ELSE [m EXCEPT
                  !.nodes = Append([@ EXCEPT ![m.cur].next = Len(m.nodes) + 1],
                                   [NewNode EXCEPT !.prev = m.cur])]
        next == made.nodes[m.cur].next
    IN  MoveToNext([made EXCEPT
                      !.nodes[next].ptr = made.nodes[m.cur].ptr - MemoryBlockSize,
                      !.cur = next])

MovePtr(m, offset) ==
  MoveToNext(MoveToPrev([m EXCEPT !.nodes[m.cur].ptr = @ + offset]))

\* peekTape that moves the pointer to the end of the range and back
peekTapeByMoving(m, offset, length) ==
  [memory |-> MovePtr(MovePtr(m, offset + length), -(offset + length)),
   bytes |-> PeekBytes(m, offset, length)]

\* the shell's peek: the tape after PeekBytes(offset, length), which
\* assigns to no field of any block, and the bytes it returns
peekTape(m, offset, length) ==
  [memory |-> m, bytes |-> PeekBytes(m, offset, length)]

----------------------------------------------------------------------------
(* Go library functions used by the engine *)

\* slices.BinarySearch: the loop, then the found test
RECURSIVE BinarySearchLoop(_, _, _, _)
BinarySearchLoop(x, target, i, j) ==
  IF i >= j THEN i
  ELSE LET h == (i + j) \div 2
       IN  IF x[h + 1] < target THEN BinarySearchLoop(x, target, h + 1, j)
           ELSE BinarySearchLoop(x, target, i, h)

BinarySearch(x, target) ==
  LET i == BinarySearchLoop(x, target, 0, Len(x))
  IN  [position |-> i, found |-> i < Len(x) /\ x[i + 1] = target]

\* slices.Insert(s, i, v)
Insert(seq, i, v) == SubSeq(seq, 1, i) \o <<v>> \o SubSeq(seq, i + 1, Len(seq))

\* slices.Delete(s, i, j)
Delete(seq, i, j) == SubSeq(seq, 1, i) \o SubSeq(seq, j + 1, Len(seq))

\* fmt.Printf("%c", b) writes the UTF-8 encoding of the code point b
PrintfC(b) == IF b < 128 THEN <<b>> ELSE <<192 + (b \div 64), 128 + (b % 64)>>

\* Scanf that gives the byte of -1 at end of input
ScanfCMinusOne(input) ==
  IF Len(input) = 0 THEN [value |-> ByteMod - 1, rest |-> input]
  ELSE [value |-> input[1] % ByteMod, rest |-> SubSeq(input, 2, Len(input))]

\* fmt.Scanf("%c", &input) followed by byte(input): at end of input the
\* variable keeps its zero value.  The input bytes of the model are ASCII,
\* for which the rune read is the byte.
ScanfC(input) ==
  IF Len(input) = 0 THEN [value |-> 0, rest |-> input]
  ELSE [value |-> input[1] % ByteMod, rest |-> SubSeq(input, 2, Len(input))]

----------------------------------------------------------------------------
(* The engine: CodeRunner (the current revision, with watch addresses, the *)
(* stop point and until mode).                                              *)

ReturnCode ==
  {"ReturnAfterFinish", "ReturnAfterStep", "ReturnReachBreakPoint",
   "ReturnReachWatch", "ReturnReachUntil", "ReturnReachStop",
   "returnAfterExecuteOperator"}

\* New(code, debugFlag)
NewCodeRunner(code, debugFlag) ==
  [code |-> code,
   codeIndex |-> 0,
   memory |-> NewMemory,
   memoryPointer |-> 0,
   debugFlag |-> debugFlag,
   breakPoint |-> <<>>,
   codeBreakPointed |-> [i \in 1..(IF debugFlag THEN code.CodeCount ELSE 0) |-> FALSE],
   breakPointUsed |-> FALSE,
   watchAddress |-> <<>>,
   watchUsed |-> FALSE,
   watchChecked |-> FALSE,
   watchHit |-> FALSE,
   untilStatus |-> FALSE,
   stopEnabled |-> FALSE,
   stopIndex |-> 0,
   untilEnabled |-> FALSE]

\* AddBreakPoint that inserts a line found in the list once more
AddBreakPointDuplicate(cr, line) ==
  IF line = 0 \/ line > cr.code.LineCount
    THEN [cr |-> cr, message |-> "OutOfRange"]
  ELSE
    LET search == BinarySearch(cr.breakPoint, line)
    IN  IF search.found
          THEN [cr |-> [cr EXCEPT !.breakPoint = Insert(@, search.position, line)],
                message |-> "AlreadyExisted"]
        ELSE IF cr.code.LineBegins[line] = -1
          THEN [cr |-> cr, message |-> "WillNotWork"]
        ELSE [cr |-> [cr EXCEPT
                        !.codeBreakPointed[cr.code.LineBegins[line] + 1] = TRUE,
                        !.breakPoint = Insert(@, search.position, line)],
              message |-> "Added"]

\* AddBreakPoint that marks the last instruction for a line without one
AddBreakPointInertMarks(cr, line) ==
  IF line = 0 \/ line > cr.code.LineCount
    THEN [cr |-> cr, message |-> "OutOfRange"]
  ELSE
    LET search == BinarySearch(cr.breakPoint, line)
    IN  IF search.found THEN [cr |-> cr, message |-> "AlreadyExisted"]
        ELSE IF cr.code.LineBegins[line] = -1
          THEN [cr |-> [cr EXCEPT !.codeBreakPointed[cr.code.CodeCount] = TRUE],
                message |-> "WillNotWork"]
        ELSE [cr |-> [cr EXCEPT
                        !.codeBreakPointed[cr.code.LineBegins[line] + 1] = TRUE,
                        !.breakPoint = Insert(@, search.position, line)],
              message |-> "Added"]

\* AddBreakPoint that stores a line without instruction in the list
AddBreakPointInertStored(cr, line) ==
  IF line = 0 \/ line > cr.code.LineCount
    THEN [cr |-> cr, message |-> "OutOfRange"]
  ELSE
    LET search == BinarySearch(cr.breakPoint, line)
    IN  IF search.found THEN [cr |-> cr, message |-> "AlreadyExisted"]
        ELSE IF cr.code.LineBegins[line] = -1
          THEN [cr |-> [cr EXCEPT !.breakPoint = Insert(@, search.position, line)],
                message |-> "WillNotWork"]
        ELSE [cr |-> [cr EXCEPT
                        !.codeBreakPointed[cr.code.LineBegins[line] + 1] = TRUE,
                        !.breakPoint = Insert(@, search.position, line)],
              message |-> "Added"]

\* AddBreakPoint: the runner afterwards and the kind of message
AddBreakPoint(cr, line) ==
  IF line = 0 \/ line > cr.code.LineCount
    THEN [cr |-> cr, message |-> "OutOfRange"]
  ELSE
    LET search == BinarySearch(cr.breakPoint, line)
    IN  IF search.found THEN [cr |-> cr, message |-> "AlreadyExisted"]
        ELSE IF cr.code.LineBegins[line] = -1
          THEN [cr |-> cr, message |-> "WillNotWork"]
        ELSE [cr |-> [cr EXCEPT
                        !.codeBreakPointed[cr.code.LineBegins[line] + 1] = TRUE,
                        !.breakPoint = Insert(@, search.position, line)],
              message |-> "Added"]

\* RemoveBreakPoint that clears the mark without looking at the neighbours
RemoveBreakPointAlwaysUnmark(cr, index) ==
  IF index <= 0 \/ index > Len(cr.breakPoint)
    THEN [cr |-> cr, message |-> "IndexOutOfRange"]
  ELSE
    LET removedLine == cr.breakPoint[index]
        removedCodeIndex == cr.code.LineBegins[removedLine]
        rest == Delete(cr.breakPoint, index - 1, index)
        removed == [cr EXCEPT !.breakPoint = rest]
    IN  [cr |-> [removed EXCEPT !.codeBreakPointed[removedCodeIndex + 1] = FALSE],
         message |-> "Removed"]

\* RemoveBreakPoint that counts the positions of the list from 0
RemoveBreakPointFromZero(cr, index) ==
  IF index < 0 \/ index >= Len(cr.breakPoint)
    THEN [cr |-> cr, message |-> "IndexOutOfRange"]
  ELSE
    LET removedLine == cr.breakPoint[index + 1]
        removedCodeIndex == cr.code.LineBegins[removedLine]
        rest == Delete(cr.breakPoint, index, index + 1)
        removed == [cr EXCEPT !.breakPoint = rest]
    IN  IF \E line \in {rest[i] : i \in 1..Len(rest)} :
             cr.code.LineBegins[line] = removedCodeIndex
          THEN [cr |-> removed, message |-> "Removed"]
        ELSE [cr |-> [removed EXCEPT !.codeBreakPointed[removedCodeIndex + 1] = FALSE],
              message |-> "Removed"]

\* RemoveBreakPoint(index), index from 1
RemoveBreakPoint(cr, index) ==
  IF index <= 0 \/ index > Len(cr.breakPoint)
    THEN [cr |-> cr, message |-> "IndexOutOfRange"]
  ELSE
    LET removedLine == cr.breakPoint[index]
        removedCodeIndex == cr.code.LineBegins[removedLine]
        rest == Delete(cr.breakPoint, index - 1, index)
        removed == [cr EXCEPT !.breakPoint = rest]
    IN  IF index # 1 /\ cr.code.LineBegins[rest[index - 1]] = removedCodeIndex
          THEN [cr |-> removed, message |-> "Removed"]
        ELSE IF index # Len(rest) + 1
                /\ cr.code.LineBegins[rest[index]] = removedCodeIndex
          THEN [cr |-> removed, message |-> "Removed"]
        ELSE [cr |-> [removed EXCEPT !.codeBreakPointed[removedCodeIndex + 1] = FALSE],
              message |-> "Removed"]

ClearBreakPoints(cr) ==
  [cr EXCEPT !.breakPoint = <<>>,
             !.codeBreakPointed = [i \in 1..cr.code.CodeCount |-> FALSE]]

\* AddWatch that puts a new address at the end of the list
AddWatchAppend(cr, addr) ==
  LET search == BinarySearch(cr.watchAddress, addr)
  IN  IF search.found THEN [cr |-> cr, message |-> "AlreadyWatched"]
      ELSE [cr |-> [cr EXCEPT !.watchAddress = Append(@, addr)],
            message |-> "Watching"]

AddWatch(cr, addr) ==
  LET search == BinarySearch(cr.watchAddress, addr)
  IN  IF search.found THEN [cr |-> cr, message |-> "AlreadyWatched"]
      ELSE [cr |-> [cr EXCEPT !.watchAddress = Insert(@, search.position, addr)],
            message |-> "Watching"]

RemoveWatch(cr, index) ==
  IF index <= 0 \/ index > Len(cr.watchAddress)
    THEN [cr |-> cr, message |-> "IndexOutOfRange"]
  ELSE [cr |-> [cr EXCEPT !.watchAddress = Delete(@, index - 1, index)],
        message |-> "Removed"]

ClearWatches(cr) == [cr EXCEPT !.watchAddress = <<>>]

SetStopPoint(cr, index) == [cr EXCEPT !.stopEnabled = TRUE, !.stopIndex = index]

RemoveStopPoint(cr) ==
  IF cr.stopEnabled
    THEN [cr |-> [cr EXCEPT !.stopEnabled = FALSE], message |-> "Removed"]
  ELSE [cr |-> cr, message |-> "NoStopPoint"]

EnableUntil(cr) == IF cr.untilEnabled THEN cr ELSE [cr EXCEPT !.untilEnabled = TRUE]

\* Reset that also disarms the stop point
ResetDisarmsStop(cr) ==
  [cr EXCEPT !.codeIndex = 0, !.memory = NewMemory, !.memoryPointer = 0,
             !.breakPointUsed = FALSE, !.watchUsed = FALSE,
             !.untilEnabled = FALSE, !.stopEnabled = FALSE]

\* Reset that leaves the pointer address as it was
ResetKeepsPointer(cr) ==
  [cr EXCEPT !.codeIndex = 0, !.memory = NewMemory,
             !.breakPointUsed = FALSE, !.watchUsed = FALSE,
             !.untilEnabled = FALSE]

Reset(cr) ==
  [cr EXCEPT !.codeIndex = 0, !.memory = NewMemory, !.memoryPointer = 0,
             !.breakPointUsed = FALSE, !.watchUsed = FALSE,
             !.untilEnabled = FALSE]

\* isWatchHit: the runner afterwards and the result
isWatchHit(cr) ==
  LET checked ==
        IF ~cr.watchChecked
          THEN [cr EXCEPT
                  !.watchChecked = TRUE,
                  !.watchHit =
                     IF BinarySearch(cr.watchAddress, cr.memoryPointer).found
                       THEN TRUE ELSE @]
        ELSE cr
  IN  IF checked.watchHit
        THEN [cr |-> [checked EXCEPT !.watchUsed = ~@], hit |-> ~checked.watchUsed]
      ELSE [cr |-> checked, hit |-> FALSE]

\* the result of a call on the engine: the runner and the standard input
\* afterwards, the bytes written to standard output, the return code.
\* ret = "panic" stands for the Go run-time panic of an index out of range.
Outcome(cr, input, out, ret) ==
  [cr |-> cr, stdin |-> input, out |-> out, ret |-> ret]

\* the last statement of executeOperator
AfterOperator(cr, input, out) ==
  Outcome(cr, input, out,
          IF cr.codeIndex >= cr.code.CodeCount THEN "ReturnAfterFinish"
          ELSE "returnAfterExecuteOperator")

\* a cell-mutating operator that leaves codeIndex advanced on a watch hit
MutateNoRewind(cr, fetched, input, memory, rest) ==
  LET w == IF cr.debugFlag THEN isWatchHit(fetched)
           ELSE [cr |-> fetched, hit |-> FALSE]
  IN  IF w.hit
        THEN Outcome(w.cr, input, <<>>, "ReturnReachWatch")
      ELSE AfterOperator([w.cr EXCEPT !.memory = memory, !.watchUsed = FALSE],
                         rest, <<>>)

\* a cell-mutating operator: the watch check, then the mutation
Mutate(cr, fetched, input, memory, rest) ==
  LET w == IF cr.debugFlag THEN isWatchHit(fetched)
           ELSE [cr |-> fetched, hit |-> FALSE]
  IN  IF w.hit
        THEN Outcome([w.cr EXCEPT !.codeIndex = @ - 1], input, <<>>,
                     "ReturnReachWatch")
      ELSE AfterOperator([w.cr EXCEPT !.memory = memory, !.watchUsed = FALSE],
                         rest, <<>>)

\* the stop check has found the stop point: it is consumed, but stays
\* armed in this variant
ReachStopKeepArmed(cr, input) ==
  Outcome(cr, input, <<>>, "ReturnReachStop")

\* the stop check has found the stop point: it is consumed
ReachStop(cr, input) ==
  Outcome([cr EXCEPT !.stopEnabled = FALSE], input, <<>>, "ReturnReachStop")

\* OpRightBracket, with until mode left armed when it fires
RightBracketUntilKept(cr, fetched, input, auxiliary) ==
  IF Peek(cr.memory, 0) # 0
    THEN AfterOperator([fetched EXCEPT !.codeIndex = auxiliary], input, <<>>)
  ELSE IF cr.untilEnabled
    THEN Outcome(fetched, input, <<>>, "ReturnReachUntil")
  ELSE AfterOperator(fetched, input, <<>>)

\* OpRightBracket: the jump back, or the fall through where until mode fires
RightBracket(cr, fetched, input, auxiliary) ==
  IF Peek(cr.memory, 0) # 0
    THEN AfterOperator([fetched EXCEPT !.codeIndex = auxiliary], input, <<>>)
  ELSE IF cr.untilEnabled
    THEN Outcome([fetched EXCEPT !.untilEnabled = FALSE], input, <<>>,
                 "ReturnReachUntil")
  ELSE AfterOperator(fetched, input, <<>>)

executeOperator(cr, input) ==
  IF cr.debugFlag /\ cr.stopEnabled /\ cr.codeIndex = cr.stopIndex
    THEN ReachStop(cr, input)
  ELSE IF cr.codeIndex < 0 \/ cr.codeIndex >= Len(cr.code.Operators)
    THEN Outcome(cr, input, <<>>, "panic")
  ELSE
    LET operator  == cr.code.Operators[cr.codeIndex + 1]
        auxiliary == cr.code.Auxiliary[cr.codeIndex + 1]
        fetched   == [cr EXCEPT !.codeIndex = @ + 1]
    IN  CASE operator = "OpAdd" ->
               Mutate(cr, fetched, input, Add(cr.memory, auxiliary), input)
          [] operator = "OpSub" ->
               Mutate(cr, fetched, input, Sub(cr.memory, auxiliary), input)
          [] operator = "OpMoveLeft" ->
               AfterOperator(
                 [fetched EXCEPT !.memory = MovePtr(@, -auxiliary),
                                 !.memoryPointer = @ - auxiliary,
                                 !.watchChecked = FALSE], input, <<>>)
          [] operator = "OpMoveRight" ->
               AfterOperator(
                 [fetched EXCEPT !.memory = MovePtr(@, auxiliary),
                                 !.memoryPointer = @ + auxiliary,
                                 !.watchChecked = FALSE], input, <<>>)
          [] operator = "OpLeftBracket" ->
               AfterOperator(
                 IF Peek(cr.memory, 0) = 0
                   THEN [fetched EXCEPT !.codeIndex = auxiliary]
                 ELSE fetched, input, <<>>)
          [] operator = "OpRightBracket" ->
               RightBracket(cr, fetched, input, auxiliary)
          [] operator = "OpInput" ->
               Mutate(cr, fetched, input,
                      Poke(cr.memory, ScanfC(input).value), ScanfC(input).rest)
          [] operator = "OpOutput" ->
               AfterOperator(fetched, input, PrintfC(Peek(cr.memory, 0)))

\* one pass of the loop of Continue; ret = "returnAfterExecuteOperator"
\* means that the loop goes on
ContinuePass(cr, input) ==
  IF cr.breakPointUsed
    THEN executeOperator([cr EXCEPT !.breakPointUsed = FALSE], input)
  ELSE IF ~cr.debugFlag
    THEN executeOperator(cr, input)
  ELSE IF cr.codeIndex < 0 \/ cr.codeIndex >= Len(cr.codeBreakPointed)
    THEN Outcome(cr, input, <<>>, "panic")
  ELSE IF cr.codeBreakPointed[cr.codeIndex + 1]
    THEN Outcome([cr EXCEPT !.breakPointUsed = TRUE], input, <<>>,
                 "ReturnReachBreakPoint")
  ELSE executeOperator(cr, input)

\* Continue: the passes of its loop until one returns
RECURSIVE Continue(_, _)
Continue(cr, input) ==
  LET r == ContinuePass(cr, input)
  IN  IF r.ret = "returnAfterExecuteOperator"
        THEN LET rest == Continue(r.cr, r.stdin)
             IN  [rest EXCEPT !.out = r.out \o @]
      ELSE r

Run(cr, input) == Continue(Reset(cr), input)

\* Step; didReset tells that Step began with Reset
Step(cr, input) ==
  LET didReset == cr.codeIndex >= cr.code.CodeCount
      r == executeOperator(IF didReset THEN Reset(cr) ELSE cr, input)
  IN  [cr |-> r.cr, stdin |-> r.stdin, out |-> r.out,
       ret |-> IF r.ret = "returnAfterExecuteOperator" THEN "ReturnAfterStep"
               ELSE r.ret,
       didReset |-> didReset]

----------------------------------------------------------------------------
(* The language reference of the README: the source text interpreted one   *)
(* character at a time, on a tape of bytes unbounded on both sides.         *)

\* pc is a position in the text, 1-based; the cells hold the nonzero bytes
NewStd(input) ==
  [pc |-> 1, cells |-> EmptyCells, ptr |-> 0, in |-> input, out |-> <<>>]

\* the right bracket that closes the left bracket before position j, with
\* depth brackets open in between
RECURSIVE MatchingRight(_, _, _)
MatchingRight(text, j, depth) ==
  IF text[j] = "]"
    THEN IF depth = 0 THEN j ELSE MatchingRight(text, j + 1, depth - 1)
  ELSE IF text[j] = "[" THEN MatchingRight(text, j + 1, depth + 1)
  ELSE MatchingRight(text, j + 1, depth)

\* the left bracket that opens the right bracket after position j
RECURSIVE MatchingLeft(_, _, _)
MatchingLeft(text, j, depth) ==
  IF text[j] = "["
    THEN IF depth = 0 THEN j ELSE MatchingLeft(text, j - 1, depth - 1)
  ELSE IF text[j] = "]" THEN MatchingLeft(text, j - 1, depth + 1)
  ELSE MatchingLeft(text, j - 1, depth)

StdFinished(s, text) == s.pc > Len(text)

\* the command at pc needs a byte of input and there is none
StdBlocked(s, text) ==
  ~StdFinished(s, text) /\ text[s.pc] = "," /\ Len(s.in) = 0

\* one character
StdStep(s, text) ==
  LET char == text[s.pc]
      value == CellAt(s.cells, s.ptr)
      on == [s EXCEPT !.pc = @ + 1]
  IN  CASE char = ">" -> [on EXCEPT !.ptr = @ + 1]
        [] char = "<" -> [on EXCEPT !.ptr = @ - 1]
        [] char = "+" ->
             [on EXCEPT !.cells = SetCell(@, s.ptr, (value + 1) % ByteMod)]
        [] char = "-" ->
             [on EXCEPT !.cells =
                          SetCell(@, s.ptr, (value + ByteMod - 1) % ByteMod)]
        [] char = "." -> [on EXCEPT !.out = Append(@, value)]
        [] char = "," ->
             [on EXCEPT !.cells = SetCell(@, s.ptr, s.in[1]),
                        !.in = Tail(@)]
        [] char = "[" ->
             IF value = 0
               THEN [s EXCEPT !.pc = MatchingRight(text, s.pc + 1, 0) + 1]
             ELSE on
        [] char = "]" ->
             IF value # 0
               THEN [s EXCEPT !.pc = MatchingLeft(text, s.pc - 1, 0) + 1]
             ELSE on
        [] OTHER -> on

----------------------------------------------------------------------------
(* Specification of the analyser alone: every text up to MaxLen characters  *)
(* and a few longer ones, with and without line metadata.                   *)

Str(n, char) == [i \in 1..n |-> char]

SampleTexts ==
  { <<"+", "+", "+", "+", "\n", ">", "+", "+", "\n", "[", "-", "]">>,
    <<"+", "\n", "+", "-", "+">>,
    <<"-", "\n", ">", "<", "-", "-">>,
    <<"+", "[", "-", "]", "+", "-">>,
    <<"[", "[", "-", "]", "+", "-", "]">>,
    <<"+", "+", "+", "-", "-", "-", "-", "-">>,
    <<">", ">", ">", "<", "<", "<", "<", "<">> }

Texts == UNION {[1..n -> Alphabet] : n \in 0..MaxLen} \cup SampleTexts

avars == <<codeText, an>>

tvars == <<tape, written, address, tapeOps>>

evars == <<codeRunner, stdin, output, CodeRunning, call, lastRet, plain, dwellHit, bpReported, std, untilAt>>

cvars == <<command, message>>

vars == <<avars, tvars, evars, cvars>>

\* the tape variables while no tape is used on its own
TapeIdle ==
  /\ tape = NewMemory
  /\ written = EmptyCells
  /\ address = 0
  /\ tapeOps = 0

\* no command in progress
NoCall == [op |-> "none", first |-> FALSE, left |-> 0]

\* no call on the configuration made
NoCommand == [op |-> "none", arg |-> 0]

CommandIdle ==
  /\ command = NoCommand
  /\ message = "none"

\* the engine variables while no session exists
EngineIdle ==
  /\ codeRunner = NewCodeRunner(NilCode, FALSE)
  /\ stdin = <<>>
  /\ output = <<>>
  /\ CodeRunning = FALSE
  /\ call = NoCall
  /\ lastRet = "none"
  /\ plain = [cr |-> NewCodeRunner(NilCode, FALSE), stdin |-> <<>>, output |-> <<>>]
  /\ dwellHit = FALSE
  /\ bpReported = FALSE
  /\ untilAt = -1
  /\ std = NewStd(<<>>)

InitAnalyse ==
  /\ codeText \in Texts
  /\ \E debugFlag \in BOOLEAN : an = AnalyseBegin(codeText, debugFlag)
  /\ TapeIdle
  /\ CommandIdle
  /\ EngineIdle

StepChar ==
  /\ an.status = "scan"
  /\ an.pos < Len(codeText)
  /\ an' = AnalyseChar(an, codeText)
  /\ UNCHANGED <<codeText, tvars, evars, cvars>>

StepEnd ==
  /\ an.status = "scan"
  /\ an.pos = Len(codeText)
  /\ an' = AnalyseEnd(an, codeText)
  /\ UNCHANGED <<codeText, tvars, evars, cvars>>

NextAnalyse == StepChar \/ StepEnd

SpecAnalyse == InitAnalyse /\ [][NextAnalyse]_vars

----------------------------------------------------------------------------
(* Specification of a tape used on its own: a caller applies MovePtr, Add,  *)
(* Sub and Poke to a Memory made by New.  written and address record what   *)
(* the caller did, in terms of logical addresses.                           *)

\* pointer moves: within a block, onto and over block boundaries
MoveOffsets == {-2000, -1024, -513, -1, 1, 512, 2000}

AddValues == {1, 258}

SubValues == {3, 259}

PokeValues == {0, 7}

\* the analysis variables while no text is analysed
AnalyseIdle ==
  /\ codeText = <<>>
  /\ an = AnalyseBegin(<<>>, FALSE)

InitTape ==
  /\ AnalyseIdle
  /\ TapeIdle
  /\ CommandIdle
  /\ EngineIdle

TapeMovePtr ==
  \E offset \in MoveOffsets :
    /\ tapeOps < MaxTapeOps
    /\ tape' = MovePtr(tape, offset)
    /\ address' = address + offset
    /\ tapeOps' = tapeOps + 1
    /\ UNCHANGED <<written, avars, evars, cvars>>

TapeAdd ==
  \E value \in AddValues :
    /\ tapeOps < MaxTapeOps
    /\ tape' = Add(tape, value)
    /\ written' = SetCell(written, address,
                          (CellAt(written, address) + value) % ByteMod)
    /\ tapeOps' = tapeOps + 1
    /\ UNCHANGED <<address, avars, evars, cvars>>

TapeSub ==
  \E value \in SubValues :
    /\ tapeOps < MaxTapeOps
    /\ tape' = Sub(tape, value)
    /\ written' = SetCell(written, address,
                          (CellAt(written, address) - value) % ByteMod)
    /\ tapeOps' = tapeOps + 1
    /\ UNCHANGED <<address, avars, evars, cvars>>

TapePoke ==
  \E value \in PokeValues :
    /\ tapeOps < MaxTapeOps
    /\ tape' = Poke(tape, value)
    /\ written' = SetCell(written, address, value)
    /\ tapeOps' = tapeOps + 1
    /\ UNCHANGED <<address, avars, evars, cvars>>

\* ranges read from the tape made by New: over the two ends of its block
\* and within it
PeekOffsets == {-513, -1, 510}

\* peek <offset> <length>, with no byte and with MaxPeekLength bytes
TapePeek ==
  \E offset \in PeekOffsets, length \in {0, MaxPeekLength} :
    /\ tapeOps < MaxTapeOps
    /\ tape' = peekTape(tape, offset, length).memory
    /\ tapeOps' = tapeOps + 1
    /\ UNCHANGED <<written, address, avars, evars, cvars>>

NextTape == TapeMovePtr \/ TapeAdd \/ TapeSub \/ TapePoke \/ TapePeek

SpecTape == InitTape /\ [][NextTape]_vars

----------------------------------------------------------------------------
(* Specification of a debug session: main.go reads and analyses a file     *)
(* with line metadata and hands the CodeRunner to the debug shell, whose    *)
(* commands call the engine.  Continue is a loop: one action per pass,      *)
(* and no other command is read while a command is in progress.             *)

\* the files debugged and what standard input holds for each
Sessions ==
  { \* two mutations of one cell on two lines, a move away and back
    [text |-> <<"+", "\n", "+", ">", "\n", "<", "-">>, input |-> <<>>],
    \* a loop in a loop; the program ends with a right bracket
    [text |-> <<"+", "+", "[", "[", "-", "]", "\n", "]">>, input |-> <<>>],
    \* input and output, a blank line at the end
    [text |-> <<",", ".", "\n", "\n">>, input |-> <<>>],
    [text |-> <<",", ".", "\n", "\n">>, input |-> <<65>>],
    \* moves over the end of the first block and back over both its ends
    [text |-> Str(520, ">") \o <<"+">> \o Str(1040, "<") \o <<"-">>,
     input |-> <<>>],
    \* input into a cell that holds 1, with no byte to read
    [text |-> <<"+", ",">>, input |-> <<>>] }

InitSession ==
  /\ \E session \in Sessions :
       /\ codeText = session.text
       /\ stdin = session.input
  /\ an = Analyse(codeText, TRUE)
  /\ TapeIdle
  /\ CommandIdle
  /\ codeRunner = NewCodeRunner(an.ret, TRUE)
  /\ output = <<>>
  /\ CodeRunning = FALSE
  /\ call = NoCall
  /\ lastRet = "none"
  /\ plain = [cr |-> NewCodeRunner(an.ret, TRUE), stdin |-> stdin, output |-> <<>>]
  /\ dwellHit = FALSE
  /\ bpReported = FALSE
  /\ untilAt = -1
  /\ std = NewStd(<<>>)

Prompt == call.op = "none"

\* the return codes with which the engine has executed the operator
Executed == {"returnAfterExecuteOperator", "ReturnAfterFinish",
             "ReturnAfterStep", "ReturnReachUntil"}

\* the uninterrupted run makes the step that codeRunner made
PlainStep(p) ==
  LET r == executeOperator(p.cr, p.stdin)
  IN  [cr |-> r.cr, stdin |-> r.stdin, output |-> p.output \o r.out]

\* the uninterrupted run starts again, on the input that is left
PlainReset(p, input) == [cr |-> Reset(p.cr), stdin |-> input, output |-> <<>>]

\* untilAt after a pass that left the runner as after
ArmedAfter(after, at) == IF after.untilEnabled THEN at ELSE -1

\* bpReported after a pass that returned ret
ReportedAfter(ret, reported) ==
  IF ret = "ReturnReachBreakPoint" THEN TRUE
  ELSE IF ret \in Executed THEN FALSE
  ELSE reported

\* dwellHit after a pass that began with the runner before and returned ret
DwellAfter(before, ret, hit) ==
  IF ret = "ReturnReachWatch" THEN TRUE
  ELSE IF ret \in Executed
          /\ before.code.Operators[before.codeIndex + 1]
                \in {"OpMoveLeft", "OpMoveRight"}
    THEN FALSE
  ELSE hit

\* printDebugMessage and step: the shell's flag after a return code
ShellFlag(ret) == ret # "ReturnAfterFinish"

\* a pass of the loop of Continue, for the commands run and continue
ContinueLoop ==
  /\ call.op = "continue"
  /\ LET r == ContinuePass(codeRunner, stdin)
     IN  /\ codeRunner' = r.cr
         /\ stdin' = r.stdin
         /\ output' = output \o r.out
         /\ plain' = IF r.ret \in Executed THEN PlainStep(plain) ELSE plain
         /\ dwellHit' = DwellAfter(codeRunner, r.ret, dwellHit)
         /\ bpReported' = ReportedAfter(r.ret, bpReported)
         /\ untilAt' = ArmedAfter(r.cr, untilAt)
         /\ IF r.ret = "returnAfterExecuteOperator"
              THEN /\ call' = [call EXCEPT !.first = FALSE]
                   /\ UNCHANGED <<CodeRunning, lastRet>>
            ELSE IF r.ret = "panic"
              THEN /\ call' = [NoCall EXCEPT !.op = "panic"]
                   /\ UNCHANGED <<CodeRunning, lastRet>>
            ELSE /\ call' = NoCall
                 /\ lastRet' = r.ret
                 /\ CodeRunning' = ShellFlag(r.ret)
  /\ UNCHANGED <<std, avars, tvars, cvars>>

\* run: Run resets and enters Continue
CmdRun ==
  /\ Prompt
  /\ codeRunner' = Reset(codeRunner)
  /\ output' = <<>>
  /\ plain' = PlainReset(plain, stdin)
  /\ lastRet' = "none"
  /\ dwellHit' = FALSE
  /\ bpReported' = FALSE
  /\ untilAt' = -1
  /\ call' = [op |-> "continue", first |-> TRUE, left |-> 0]
  /\ UNCHANGED <<stdin, CodeRunning, std, avars, tvars, cvars>>

\* continue: refused while the code is not running
CmdContinue ==
  /\ Prompt
  /\ CodeRunning
  /\ call' = [op |-> "continue", first |-> TRUE, left |-> 0]
  /\ UNCHANGED <<codeRunner, stdin, output, CodeRunning, lastRet, plain, dwellHit, bpReported, std, untilAt, avars, tvars, cvars>>

\* step [times]
CmdStep ==
  /\ Prompt
  /\ \E times \in 1..MaxStepTimes :
       call' = [op |-> "step", first |-> TRUE, left |-> times]
  /\ UNCHANGED <<codeRunner, stdin, output, CodeRunning, lastRet, plain, dwellHit, bpReported, std, untilAt, avars, tvars, cvars>>

\* one pass of the loop of the step command: step() calls Step
StepLoop ==
  /\ call.op = "step"
  /\ LET r == Step(codeRunner, stdin)
         p == IF r.didReset THEN PlainReset(plain, stdin) ELSE plain
     IN  /\ codeRunner' = r.cr
         /\ stdin' = r.stdin
         /\ output' = (IF r.didReset THEN <<>> ELSE output) \o r.out
         /\ plain' = IF r.ret \in Executed THEN PlainStep(p) ELSE p
         /\ dwellHit' = DwellAfter(IF r.didReset THEN Reset(codeRunner)
                                   ELSE codeRunner, r.ret,
                                   IF r.didReset THEN FALSE ELSE dwellHit)
         /\ bpReported' = ReportedAfter(r.ret, IF r.didReset THEN FALSE
                                                ELSE bpReported)
         /\ untilAt' = ArmedAfter(r.cr, untilAt)
         /\ lastRet' = r.ret
         /\ CodeRunning' = ShellFlag(r.ret)
         /\ call' = IF r.ret = "ReturnAfterFinish" \/ call.left = 1 THEN NoCall
                    ELSE [call EXCEPT !.first = FALSE, !.left = @ - 1]
  /\ UNCHANGED <<std, avars, tvars, cvars>>

\* until: refused while the code is not running
CmdUntil ==
  /\ Prompt
  /\ CodeRunning
  /\ codeRunner' = EnableUntil(codeRunner)
  /\ untilAt' = IF codeRunner.untilEnabled THEN untilAt ELSE codeRunner.codeIndex
  /\ UNCHANGED <<stdin, output, CodeRunning, call, lastRet, plain, dwellHit, bpReported, std, avars, tvars, cvars>>

\* reset
CmdReset ==
  /\ Prompt
  /\ codeRunner' = Reset(codeRunner)
  /\ output' = <<>>
  /\ plain' = PlainReset(plain, stdin)
  /\ lastRet' = "none"
  /\ dwellHit' = FALSE
  /\ bpReported' = FALSE
  /\ untilAt' = -1
  /\ UNCHANGED <<stdin, CodeRunning, call, std, avars, tvars, cvars>>

\* a command that only changes the debug configuration
Configure(next) ==
  /\ Prompt
  /\ codeRunner' = next
  /\ UNCHANGED <<stdin, output, CodeRunning, call, lastRet, plain, dwellHit, bpReported, std, untilAt, avars, tvars, cvars>>

\* break <line>
CmdBreak ==
  \E line \in 0..(codeRunner.code.LineCount + 1) : Configure(AddBreakPoint(codeRunner, line).cr)

\* delete b <num>
CmdDeleteBreak ==
  \E index \in 0..(Len(codeRunner.breakPoint) + 1) :
    Configure(RemoveBreakPoint(codeRunner, index).cr)

\* clear b
CmdClearBreak == Configure(ClearBreakPoints(codeRunner))

\* watch <address>
CmdWatch ==
  \E addr \in 0..MaxWatchAddress : Configure(AddWatch(codeRunner, addr).cr)

\* delete w <num>
CmdDeleteWatch ==
  \E index \in 0..(Len(codeRunner.watchAddress) + 1) :
    Configure(RemoveWatch(codeRunner, index).cr)

\* clear w
CmdClearWatch == Configure(ClearWatches(codeRunner))

\* stop <index>, at the first instruction or at instruction MaxStopIndex
CmdStop ==
  \E index \in {0, MaxStopIndex} : Configure(SetStopPoint(codeRunner, index))

\* delete s, clear s
CmdDeleteStop == Configure(RemoveStopPoint(codeRunner).cr)

NextSession ==
  \/ ContinueLoop
  \/ StepLoop
  \/ CmdRun
  \/ CmdContinue
  \/ CmdStep
  \/ CmdUntil
  \/ CmdReset
  \/ CmdBreak
  \/ CmdDeleteBreak
  \/ CmdClearBreak
  \/ CmdWatch
  \/ CmdDeleteWatch
  \/ CmdClearWatch
  \/ CmdStop
  \/ CmdDeleteStop

Spec == InitSession /\ [][NextSession]_vars

----------------------------------------------------------------------------
(* Specification of a run without the debugger beside the language         *)
(* reference: Read analyses the text and Run executes the instruction      *)
(* stream; when Run has returned, the text is interpreted character by     *)
(* character on the same input.                                             *)

EquivSamples ==
  { <<"+", "+", "[", ">", "+", "+", "<", "-", "]", ">", ".">>,
    <<"+", "[", "-", "]", "+", "-", ",", ".">>,
    <<",", "[", ">", "+", "\n", "+", "<", "-", "-", "+", "]", ">", ".">>,
    <<"+", ">", "<", "[", "[", "-", "]", "+", "-", "]", "<", "<", ">", "+">>,
    <<"-", "[", "+", "]", ".">>,
    \* the example of the README
    <<"+", "+", "+", "+", "\n", ">", "+", "+", "\n", "[", "-", "]">> }

EquivTexts == UNION {[1..n -> Alphabet] : n \in 1..MaxEquivLen} \cup EquivSamples

\* enough bytes of input for every text of MaxEquivLen characters
EquivInput == [i \in 1..(MaxEquivLen + 1) |-> 64 + i]

InitEquiv ==
  /\ codeText \in EquivTexts
  /\ stdin = EquivInput
  /\ \E debugFlag \in BOOLEAN :
       /\ an = Analyse(codeText, debugFlag)
       /\ an.err = NoError
       /\ codeRunner = Reset(NewCodeRunner(an.ret, debugFlag))
  /\ TapeIdle
  /\ CommandIdle
  /\ output = <<>>
  /\ CodeRunning = FALSE
  /\ call = [op |-> "continue", first |-> TRUE, left |-> 0]
  /\ lastRet = "none"
  /\ plain = [cr |-> codeRunner, stdin |-> stdin, output |-> <<>>]
  /\ dwellHit = FALSE
  /\ bpReported = FALSE
  /\ untilAt = -1
  /\ std = NewStd(stdin)

InRange(ptr) == -MaxPointer <= ptr /\ ptr <= MaxPointer

\* Run: the passes of Continue
EquivRun ==
  /\ InRange(codeRunner.memoryPointer)
  /\ ContinueLoop

\* the reference, once Run has returned
EquivStd ==
  /\ call.op # "continue"
  /\ ~StdFinished(std, codeText)
  /\ ~StdBlocked(std, codeText)
  /\ InRange(std.ptr)
  /\ std' = StdStep(std, codeText)
  /\ UNCHANGED <<codeRunner, stdin, output, CodeRunning, call, lastRet, plain,
                 dwellHit, bpReported, untilAt, avars, tvars, cvars>>

NextEquiv == EquivRun \/ EquivStd

SpecEquiv == InitEquiv /\ [][NextEquiv]_vars

----------------------------------------------------------------------------
(* Specification of the configuration of a CodeRunner: main.go analyses a  *)
(* file with line metadata; AddBreakPoint, RemoveBreakPoint,                *)
(* ClearBreakPoints, AddWatch, RemoveWatch and ClearWatches are called in   *)
(* any order with any argument, and Run and Continue between them, each a   *)
(* whole call.                                                              *)

\* the files: blank lines before the first instruction, between two
\* instructions and at the end; three lines that begin at one instruction
ConfigTexts ==
  { <<"\n", "+", "\n", "\n", ".", "\n", "\n">>,
    <<"+", ">", "\n", "\n", "\n", "+">> }

InitConfig ==
  /\ codeText \in ConfigTexts
  /\ an = Analyse(codeText, TRUE)
  /\ TapeIdle
  /\ CommandIdle
  /\ codeRunner = NewCodeRunner(an.ret, TRUE)
  /\ stdin = <<>>
  /\ output = <<>>
  /\ CodeRunning = FALSE
  /\ call = NoCall
  /\ lastRet = "none"
  /\ plain = [cr |-> NewCodeRunner(NilCode, FALSE), stdin |-> <<>>, output |-> <<>>]
  /\ dwellHit = FALSE
  /\ bpReported = FALSE
  /\ untilAt = -1
  /\ std = NewStd(<<>>)

\* a call that changes the configuration and returns a message
Configured(op, arg, r) ==
  /\ codeRunner' = r.cr
  /\ command' = [op |-> op, arg |-> arg]
  /\ message' = r.message
  /\ UNCHANGED <<stdin, output, CodeRunning, call, lastRet, plain, dwellHit,
                 bpReported, std, untilAt, avars, tvars>>

\* a call that runs the program and returns a return code
Ran(op, r) ==
  /\ codeRunner' = r.cr
  /\ stdin' = r.stdin
  /\ output' = r.out
  /\ lastRet' = r.ret
  /\ CodeRunning' = ShellFlag(r.ret)
  /\ command' = [op |-> op, arg |-> 0]
  /\ UNCHANGED <<message, call, plain, dwellHit, bpReported, std, untilAt,
                 avars, tvars>>

ConfigAddBreakPoint ==
  \E line \in 0..(codeRunner.code.LineCount + 1) :
    Configured("AddBreakPoint", line, AddBreakPoint(codeRunner, line))

ConfigRemoveBreakPoint ==
  \E index \in 0..(Len(codeRunner.breakPoint) + 1) :
    Configured("RemoveBreakPoint", index, RemoveBreakPoint(codeRunner, index))

ConfigClearBreakPoints ==
  Configured("ClearBreakPoints", 0,
             [cr |-> ClearBreakPoints(codeRunner), message |-> "none"])

ConfigAddWatch ==
  \E addr \in (-MaxAddress)..MaxAddress :
    Configured("AddWatch", addr, AddWatch(codeRunner, addr))

ConfigRemoveWatch ==
  \E index \in 0..(Len(codeRunner.watchAddress) + 1) :
    Configured("RemoveWatch", index, RemoveWatch(codeRunner, index))

ConfigClearWatches ==
  Configured("ClearWatches", 0,
             [cr |-> ClearWatches(codeRunner), message |-> "none"])

ConfigRun == Ran("Run", Run(codeRunner, stdin))

\* the shell calls Continue only while the code is running
ConfigContinue ==
  /\ CodeRunning
  /\ Ran("Continue", Continue(codeRunner, stdin))

NextConfig ==
  \/ ConfigAddBreakPoint
  \/ ConfigRemoveBreakPoint
  \/ ConfigClearBreakPoints
  \/ ConfigAddWatch
  \/ ConfigRemoveWatch
  \/ ConfigClearWatches
  \/ ConfigRun
  \/ ConfigContinue

SpecConfig == InitConfig /\ [][NextConfig]_vars

----------------------------------------------------------------------------
(* Properties of the analyser *)

\* number of positions of seq that hold an element of set
CountIn(seq, set) == Cardinality({i \in 1..Len(seq) : seq[i] \in set})

\* Go index j holds the right bracket that closes the left bracket at Go
\* index i, by bracket balance alone
Matches(ops, i, j) ==
  /\ i < j
  /\ ops[i + 1] = "OpLeftBracket"
  /\ ops[j + 1] = "OpRightBracket"
  /\ \A k \in i..j :
       LET opens  == Cardinality({m \in i..k : ops[m + 1] = "OpLeftBracket"})
           closes == Cardinality({m \in i..k : ops[m + 1] = "OpRightBracket"})
       IN  IF k = j THEN opens = closes ELSE opens > closes

Returned == an.status = "done" /\ ~an.ret.isNil

Scanned == an.pos = Len(codeText) /\ an.err = NoError

SimpleChars == {"+", "-", "<", ">"}

OperatorChars == {"+", "-", "<", ">", "[", "]", ".", ","}

ReverseChar(char) ==
  CASE char = "+" -> "-" [] char = "-" -> "+"
    [] char = "<" -> ">" [] char = ">" -> "<"

\* positions of text that hold char
PosOf(text, char) == {i \in 1..Len(text) : text[i] = char}

Min(S) == CHOOSE m \in S : \A n \in S : m <= n

Max(S) == CHOOSE m \in S : \A n \in S : m >= n

\* in line mode all operator characters of the text are on one line
OneLine(text, debugFlag) ==
  LET P == {i \in 1..Len(text) : text[i] \in OperatorChars}
  IN  debugFlag /\ P # {} =>
        \A i \in Min(P)..Max(P) : text[i] # "\n"

\* the operator characters of text are n >= 1 times char and nothing else
IsRun(text, char, n) ==
  /\ n >= 1
  /\ Cardinality(PosOf(text, char)) = n
  /\ CountIn(text, OperatorChars) = n

\* the operator characters of text are a times char, then b times its
\* opposite, and nothing else
IsRunPair(text, char, a, b) ==
  /\ a >= 1 /\ b >= 1
  /\ Cardinality(PosOf(text, char)) = a
  /\ Cardinality(PosOf(text, ReverseChar(char))) = b
  /\ CountIn(text, OperatorChars) = a + b
  /\ Max(PosOf(text, char)) < Min(PosOf(text, ReverseChar(char)))

\* C5: N >= 1 consecutive identical '+' (or '-', '<', '>'), not broken by
\* another operator nor, in line mode, by a line boundary, are emitted as
\* exactly one instruction of that kind with operand N.
C5_RunMerged ==
  Scanned =>
    \A char \in SimpleChars :
      LET n == Cardinality(PosOf(codeText, char))
      IN  IsRun(codeText, char, n) /\ OneLine(codeText, an.a.debugFlag) =>
            /\ an.ret.Operators = <<ToOperator(char)>>
            /\ an.ret.Auxiliary = <<n>>

\* a run of three or more, with a non-operator character inside it
C5_Witness ==
  /\ Scanned
  /\ \E char \in SimpleChars : \E n \in 3..Len(codeText) :
       /\ IsRun(codeText, char, n) /\ OneLine(codeText, an.a.debugFlag)
       /\ Len(codeText) > n
       /\ an.ret.Auxiliary = <<n>>

\* C6: a run of A '+' followed on the same line by a run of B '-' (or
\* '-' then '+', '<' then '>', '>' then '<') with no operator between them
\* leaves no instruction if A = B, one instruction of the first kind with
\* operand A-B if A > B, one of the second kind with operand B-A if A < B.
C6_RunPairCancelled ==
  Scanned =>
    \A char \in SimpleChars :
      LET a == Cardinality(PosOf(codeText, char))
          b == Cardinality(PosOf(codeText, ReverseChar(char)))
      IN  IsRunPair(codeText, char, a, b) /\ OneLine(codeText, an.a.debugFlag) =>
            /\ a = b => an.ret.Operators = <<>> /\ an.ret.Auxiliary = <<>>
            /\ a > b => /\ an.ret.Operators = <<ToOperator(char)>>
                        /\ an.ret.Auxiliary = <<a - b>>
            /\ a < b => /\ an.ret.Operators = <<ToOperator(ReverseChar(char))>>
                        /\ an.ret.Auxiliary = <<b - a>>

\* a longer second run: the first instruction was deleted and one of the
\* opposite kind with operand B-A >= 2 stands in its place
C6_Witness ==
  /\ Scanned
  /\ \E char \in SimpleChars : \E a, b \in 1..Len(codeText) :
       /\ IsRunPair(codeText, char, a, b) /\ OneLine(codeText, an.a.debugFlag)
       /\ b >= a + 2
       /\ an.ret.Operators = <<ToOperator(ReverseChar(char))>>

\* the Go index at which the line of the character about to be scanned
\* begins in the instruction stream
LineBeginNow ==
  IF AtLineStart(codeText, an.pos + 1) THEN Len(an.ret.Operators)
  ELSE an.ret.LineBegins[Len(an.ret.LineBegins)]

\* C7: with line metadata, scanning a character never deletes or changes
\* an instruction produced by an earlier line (a ']' only fills in the jump
\* operand of the '[' it closes), and an operator character met while its
\* line has no instruction appends a new instruction.
C7_LineIsolation ==
  [][ (/\ an.status = "scan" /\ an.pos < Len(codeText)
       /\ an.a.debugFlag /\ an'.err = NoError) =>
        LET char == codeText[an.pos + 1]
            ops  == an.ret.Operators
            aux  == an.ret.Auxiliary
            lb   == LineBeginNow
        IN  /\ Len(an'.ret.Operators) >= lb
            /\ SubSeq(an'.ret.Operators, 1, lb) = SubSeq(ops, 1, lb)
            /\ \A i \in 1..lb :
                 \/ an'.ret.Auxiliary[i] = aux[i]
                 \/ /\ char = "]" /\ ops[i] = "OpLeftBracket"
                    /\ an'.ret.Auxiliary[i] = Len(an'.ret.Operators)
            /\ (char \in OperatorChars /\ Len(ops) = lb) =>
                 /\ an'.ret.Operators = Append(ops, ToOperator(char))
                 /\ Len(an'.ret.Auxiliary) = Len(aux) + 1
     ]_vars

\* on the second line an instruction was added, cancelled again, and the
\* next operator character then started a fresh instruction equal in kind
\* to the first line's last instruction
C7_Witness ==
  /\ an.a.debugFlag /\ an.status = "scan" /\ an.a.lineCount = 2
  /\ an.a.columnIndex = 2
  /\ codeText[an.pos] \in SimpleChars
  /\ codeText[an.pos] = codeText[an.pos - 2]
  /\ codeText[an.pos - 1] = ReverseChar(codeText[an.pos])
  /\ an.ret.Operators = <<ToOperator(codeText[an.pos]), ToOperator(codeText[an.pos])>>
  /\ an.ret.Auxiliary = <<1, 1>>
  /\ an.ret.LineBegins = <<0, 1>>

----------------------------------------------------------------------------
(* Properties of the tape *)

\* offsets read back: every address written so far, the neighbours of the
\* pointer, and addresses up to three blocks away on either side
ProbeOffsets ==
  {a - address : a \in DOMAIN written}
     \cup {-3072, -2000, -1025, -1024, -513, -512, -1, 0, 1, 511, 512, 1023,
           1024, 2000, 3072}

\* C3: the tape is an unbounded zero-initialised map from signed addresses
\* to bytes: Peek(offset) is the last value written at address
\* pointer+offset, 0 if none was, also across block boundaries.
C3_TapeIsMap ==
  \A offset \in ProbeOffsets :
    Peek(tape, offset) = CellAt(written, address + offset)

\* the pointer left its first block in both directions and is back in it,
\* and nonzero bytes written in two other blocks are read from there
C3_Witness ==
  /\ Len(tape.nodes) >= 3
  /\ tape.cur = 1
  /\ \E a, b \in DOMAIN written :
       /\ a < -(MemoryBlockSize \div 2) /\ b >= MemoryBlockSize \div 2
       /\ Peek(tape, a - address) # 0 /\ Peek(tape, b - address) # 0

----------------------------------------------------------------------------
(* Properties of the run beside the language reference *)

BothFinished == call.op # "continue" /\ StdFinished(std, codeText)

SameTape ==
  \A a \in -MaxPointer..MaxPointer :
    Peek(codeRunner.memory, a - codeRunner.memoryPointer) = CellAt(std.cells, a)

\* C1 as claimed: when the character-by-character interpretation of an
\* accepted text has terminated, the run of the analysed instruction
\* stream has finished with the same output bytes, the same pointer
\* address and the same tape.
C1_Claim ==
  BothFinished =>
    /\ lastRet = "ReturnAfterFinish"
    /\ output = std.out
    /\ codeRunner.memoryPointer = std.ptr
    /\ SameTape

----------------------------------------------------------------------------
(* Properties of the debug session *)

InPass == call.op \in {"continue", "step"}

\* what the pass of the engine call in progress returns
Pass ==
  IF call.op = "continue" THEN ContinuePass(codeRunner, stdin)
  ELSE Step(codeRunner, stdin)

\* the runner as that pass finds it
PassBase ==
  IF call.op = "step" /\ codeRunner.codeIndex >= codeRunner.code.CodeCount
    THEN Reset(codeRunner)
  ELSE codeRunner

NextOperator(r) == r.code.Operators[r.codeIndex + 1]

C8_Claim ==
  (/\ call.op = "continue"
   /\ codeRunner.codeIndex < Len(codeRunner.codeBreakPointed)
   /\ codeRunner.codeBreakPointed[codeRunner.codeIndex + 1]
   /\ Pass.ret \in Executed)
    => call.first /\ bpReported

\* C9 as claimed: within one dwell of the pointer at an address at most
\* one watch suspension is returned.
C9_Claim ==
  (InPass /\ Pass.ret = "ReturnReachWatch") => ~dwellHit

\* C10 as claimed: a watch suspension leaves tape, pointer, program counter
\* and input as the pass found them, at an Add, Sub or Input; and the first
\* pass of the next continue or step executes that operator.
C10_Claim ==
  /\ (InPass /\ Pass.ret = "ReturnReachWatch") =>
       /\ Pass.cr.memory = PassBase.memory
       /\ Pass.cr.memoryPointer = PassBase.memoryPointer
       /\ Pass.cr.codeIndex = PassBase.codeIndex
       /\ Pass.stdin = stdin /\ Pass.out = <<>>
       /\ NextOperator(PassBase) \in {"OpAdd", "OpSub", "OpInput"}
  /\ (InPass /\ call.first /\ lastRet = "ReturnReachWatch") =>
       Pass.ret \in Executed

InStep == call.op = "step"

Range(seq) == {seq[i] : i \in 1..Len(seq)}

\* the pointer of the runner is at a watched address
Watched(r) == r.memoryPointer \in Range(r.watchAddress)

Mutating == {"OpAdd", "OpSub", "OpInput"}

\* the stop point is armed at the operator the runner is about to execute
StopArmedAt(r) == r.stopEnabled /\ r.codeIndex = r.stopIndex

\* no watch suspension was returned yet in the dwell the pass begins in
NotYetHit ==
  IF InStep /\ codeRunner.codeIndex >= codeRunner.code.CodeCount THEN TRUE
  ELSE ~dwellHit

\* C11 as claimed: Step never returns a breakpoint suspension, marked index
\* or not: away from the armed stop point it executes the operator or
\* returns a watch suspension; and when the operator would mutate a watched
\* cell whose watch has not fired in this dwell, Step returns the watch
\* suspension and leaves tape, pointer and program counter as they were.
C11_Claim ==
  (InStep /\ ~StopArmedAt(PassBase)) =>
    /\ Pass.ret \in Executed \cup {"ReturnReachWatch"}
    /\ (/\ Watched(PassBase)
        /\ NotYetHit
        /\ NextOperator(PassBase) \in Mutating) =>
         /\ Pass.ret = "ReturnReachWatch"
         /\ Pass.cr.memory = PassBase.memory
         /\ Pass.cr.codeIndex = PassBase.codeIndex
         /\ Pass.cr.memoryPointer = PassBase.memoryPointer

\* C12 as claimed: Step at the armed stop point returns no stop suspension
\* and leaves the stop point armed.
C12_Claim ==
  (InStep /\ StopArmedAt(PassBase)) =>
    /\ Pass.ret # "ReturnReachStop"
    /\ Pass.cr.stopEnabled

\* C13 as claimed: after a step of the command step N has returned a watch
\* suspension, the command executes no further operator.
C13_Claim ==
  (InStep /\ ~call.first /\ lastRet = "ReturnReachWatch") =>
    Pass.ret \notin Executed

\* the pass executes a right bracket while the cell at the pointer is zero
FallsThrough ==
  /\ PassBase.codeIndex < PassBase.code.CodeCount
  /\ NextOperator(PassBase) = "OpRightBracket"
  /\ Peek(PassBase.memory, 0) = 0
  /\ Pass.ret \in Executed

Enclosing(code, p) ==
  {i \in 0..(code.CodeCount - 1) :
     /\ code.Operators[i + 1] = "OpLeftBracket"
     /\ i < p
     /\ p <= code.Auxiliary[i + 1] - 1}

\* C15 as claimed: until mode armed inside a loop body fires at the right
\* bracket of the innermost loop that encloses the position where it was
\* armed.
C15_Claim ==
  (/\ InPass
   /\ Pass.ret = "ReturnReachUntil"
   /\ Enclosing(codeRunner.code, untilAt) # {}) =>
     PassBase.codeIndex =
       codeRunner.code.Auxiliary[Max(Enclosing(codeRunner.code, untilAt)) + 1] - 1

\* the debug configuration of a runner restricted to the stop point
StopPoint(r) == <<r.stopEnabled, r.stopIndex>>

C17_Claim ==
  InPass =>
    /\ PassBase.codeIndex \in 0..(PassBase.code.CodeCount - 1)
    /\ Pass.ret # "panic"

\* the first pass of the first call after run or reset: nothing has been
\* executed since
FirstAfterReset ==
  /\ InPass /\ call.first
  /\ lastRet = "none"
  /\ PassBase.codeIndex = 0

\* C18 as claimed: after run or reset, whatever the run before left behind,
\* Continue at a marked first operator returns the breakpoint suspension,
\* and otherwise a first operator that mutates the cell at a watched
\* address 0 returns the watch suspension.
C18_Claim ==
  FirstAfterReset =>
    /\ (/\ call.op = "continue"
        /\ PassBase.codeBreakPointed[1]) =>
         Pass.ret = "ReturnReachBreakPoint"
    /\ (/\ call.op = "step" \/ ~PassBase.codeBreakPointed[1]
        /\ ~StopArmedAt(PassBase)
        /\ NextOperator(PassBase) \in Mutating
        /\ Watched(PassBase)) =>
         Pass.ret = "ReturnReachWatch"

\* the debug configuration of a runner
Config(r) ==
  <<r.breakPoint, r.codeBreakPointed, r.watchAddress, r.stopEnabled, r.stopIndex>>

\* a command that adds, removes, clears or sets
ConfigCommand ==
  \/ CmdBreak \/ CmdDeleteBreak \/ CmdClearBreak
  \/ CmdWatch \/ CmdDeleteWatch \/ CmdClearWatch
  \/ CmdStop \/ CmdDeleteStop

\* a pass in which the stop point triggers: it is disarmed, no more
StopTriggers ==
  /\ InPass
  /\ Pass.ret = "ReturnReachStop"
  /\ Config(codeRunner') =
       <<codeRunner.breakPoint, codeRunner.codeBreakPointed,
         codeRunner.watchAddress, FALSE, codeRunner.stopIndex>>

----------------------------------------------------------------------------
(* The error of a right bracket that closes nothing *)

\* the positions of the text where a right bracket stands with as many
\* right as left brackets before it, and no such position before it: the
\* first right bracket met while no left bracket is open
FirstUnopened(text) ==
  LET Closes(p) == Cardinality({q \in 1..p : text[q] = "]"})
      Opens(p) == Cardinality({q \in 1..p : text[q] = "["})
      bad == {p \in 1..Len(text) : Closes(p) > Opens(p)}
  IN  {p \in bad : \A q \in bad : p <= q}

\* the characters of the line of position p, its line feed excluded
LineOf(text, p) ==
  LET from == CHOOSE i \in 1..p :
                /\ \A q \in i..(p - 1) : text[q] # "\n"
                /\ (i = 1 \/ text[i - 1] = "\n")
      upto == CHOOSE j \in (p - 1)..Len(text) :
                /\ \A q \in p..j : text[q] # "\n"
                /\ (j = Len(text) \/ text[j + 1] = "\n")
  IN  [from |-> from, chars |-> SubSeq(text, from, upto)]

\* C20: when Analyse meets a right bracket while no left bracket is open,
\* it ends there with the bracket error that carries the number of the line
\* of that bracket, counted from 1, and its column in the line, counted
\* from 0 (the line, then as many spaces as the column, then the caret),
\* and it returns no program.
C20_UnmatchedRight ==
  (an.status = "done" /\ FirstUnopened(codeText) # {}) =>
    LET p == CHOOSE q \in FirstUnopened(codeText) : TRUE
        line == 1 + CountIn(SubSeq(codeText, 1, p - 1), {"\n"})
        lineOf == LineOf(codeText, p)
        column == p - lineOf.from
    IN  /\ an.err.kind = "BracketNotClose"
        /\ an.err.line = line
        /\ an.err.errorString =
              lineOf.chars \o <<"\n">> \o Spaces(column) \o <<"^", "\n">>
        /\ an.ret = NilCode
        /\ an.pos = p - 1

\* "+]" has failed at line 1, column 1
C20_Witness ==
  /\ an.status = "done"
  /\ codeText = <<"+", "]">>
  /\ an.err = [kind |-> "BracketNotClose", line |-> 1,
               errorString |-> <<"+", "]", "\n", " ", "^", "\n">>]
  /\ an.ret = NilCode

----------------------------------------------------------------------------
(* The error of a left bracket that is never closed *)

\* the positions of the left brackets of the text that no right bracket
\* closes
Unclosed(text) ==
  LET Closes(i, j) == Cardinality({q \in i..j : text[q] = "]"})
      Opens(i, j) == Cardinality({q \in i..j : text[q] = "["})
  IN  {p \in 1..Len(text) :
         /\ text[p] = "["
         /\ \A j \in (p + 1)..Len(text) : Closes(p + 1, j) <= Opens(p + 1, j)}

\* C21: when the scan ends with left brackets never closed, Analyse fails
\* with the bracket error whose line and column are those of the first
\* (outermost) left bracket that is never closed, whatever matched pairs
\* precede it and however many left brackets stay open.
C21_Claim ==
  (/\ an.status = "done"
   /\ FirstUnopened(codeText) = {}
   /\ Unclosed(codeText) # {}) =>
    LET p == CHOOSE q \in Unclosed(codeText) : \A r \in Unclosed(codeText) : q <= r
        line == 1 + CountIn(SubSeq(codeText, 1, p - 1), {"\n"})
        lineOf == LineOf(codeText, p)
        column == p - lineOf.from
    IN  /\ an.err.kind = "BracketNotClose"
        /\ an.err.line = line
        /\ an.err.errorString =
              lineOf.chars \o <<"\n">> \o Spaces(column) \o <<"^", "\n">>
        /\ an.ret = NilCode

----------------------------------------------------------------------------
(* The error of a program without instructions *)

\* Analyse has failed with the empty-program error and returned no program
FailedEmpty(s) == s.err = EmptyError /\ s.ret = NilCode

\* C22: Analyse fails with the empty-program error and returns no program
\* exactly when the brackets of the source are balanced and no instruction
\* is left at the end of the scan: for the empty source at once, for every
\* other source when the scan has ended.
C22_Claim ==
  /\ []((an.status = "done" /\ codeText = <<>>) => FailedEmpty(an))
  /\ [][(an.status = "scan" /\ an'.status = "done") =>
          (FailedEmpty(an') <=>
             /\ an.pos = Len(codeText)
             /\ Len(an.a.bracketIndexStack) = 0
             /\ Len(an.ret.Operators) = 0)]_vars

----------------------------------------------------------------------------
(* Properties of the configuration calls *)

\* the breakpoint list and the marks of the instructions
BreakPoints(cr) == <<cr.breakPoint, cr.codeBreakPointed>>

\* C23: AddBreakPoint(line) reports the line out of range when it is 0 or
\* greater than the line count, and already existing when it is in the
\* breakpoint list; in both cases the list and the marks stay as they were.
C23_Rejected ==
  [][command'.op = "AddBreakPoint" =>
       LET line == command'.arg
           outOfRange == line = 0 \/ line > codeRunner.code.LineCount
           existing == line \in Range(codeRunner.breakPoint)
       IN  /\ outOfRange =>
                /\ message' = "OutOfRange"
                /\ BreakPoints(codeRunner') = BreakPoints(codeRunner)
           /\ (~outOfRange /\ existing) =>
                /\ message' = "AlreadyExisted"
                /\ BreakPoints(codeRunner') = BreakPoints(codeRunner)
           /\ (~outOfRange /\ ~existing) =>
                message' \notin {"OutOfRange", "AlreadyExisted"}]_vars

\* a line of the list has been added again, with another breakpoint set
C23_Witness ==
  /\ command.op = "AddBreakPoint"
  /\ message = "AlreadyExisted"
  /\ command.arg \in Range(codeRunner.breakPoint)
  /\ Len(codeRunner.breakPoint) = 2

\* the line has no instruction: its entry of the line table is the sentinel
Inert(cr, line) ==
  /\ line \in 1..cr.code.LineCount
  /\ cr.code.LineBegins[line] = -1

\* C24: AddBreakPoint on a line that maps to no instruction returns the
\* warning that the breakpoint will not work and marks no instruction, and
\* Run and Continue return a breakpoint suspension only at an instruction
\* that a line of the breakpoint list maps to, never for such a line.
C24_InertNeverSuspends ==
  [][/\ (command'.op = "AddBreakPoint" /\ Inert(codeRunner, command'.arg)) =>
          /\ message' = "WillNotWork"
          /\ codeRunner'.codeBreakPointed = codeRunner.codeBreakPointed
     /\ (command'.op \in {"Run", "Continue"}
         /\ lastRet' = "ReturnReachBreakPoint") =>
          \E line \in Range(codeRunner.breakPoint) :
            /\ ~Inert(codeRunner, line)
            /\ codeRunner.code.LineBegins[line] = codeRunner'.codeIndex]_vars

\* a breakpoint on the blank last line was the last one asked for, no
\* other is set, and Run has gone to the end of the program
C24_Witness ==
  /\ command.op = "Run"
  /\ message = "WillNotWork"
  /\ codeRunner.breakPoint = <<>>
  /\ \A i \in 1..Len(codeRunner.codeBreakPointed) : ~codeRunner.codeBreakPointed[i]
  /\ lastRet = "ReturnAfterFinish"

\* seq without its element at position k
Without(seq, k) == SubSeq(seq, 1, k - 1) \o SubSeq(seq, k + 1, Len(seq))

C26_MarksFollowList ==
  /\ Len(codeRunner.codeBreakPointed) = codeRunner.code.CodeCount
  /\ \A i \in 0..(codeRunner.code.CodeCount - 1) :
       codeRunner.codeBreakPointed[i + 1] <=>
         \E line \in Range(codeRunner.breakPoint) :
           codeRunner.code.LineBegins[line] = i

\* of the breakpoints on the three lines that begin at instruction 2 the
\* middle one has been removed, and the mark is still there
C26_Witness ==
  /\ codeText = <<"+", ">", "\n", "\n", "\n", "+">>
  /\ command = [op |-> "RemoveBreakPoint", arg |-> 2]
  /\ message = "Removed"
  /\ codeRunner.breakPoint = <<2, 4>>
  /\ codeRunner.code.LineBegins = <<0, 2, 2, 2>>
  /\ codeRunner.codeBreakPointed = <<FALSE, FALSE, TRUE>>

StrictlyIncreasing(seq) == \A i \in 1..(Len(seq) - 1) : seq[i] < seq[i + 1]

\* C27: the breakpoint list is strictly increasing after every call, and
\* RemoveBreakPoint(k) removes exactly the line at position k of the list,
\* counted from 1 (a position, not a line number); for k below 1 or above
\* the length of the list it reports the index out of range and changes
\* nothing.
C27_RemoveByPosition ==
  [][/\ StrictlyIncreasing(codeRunner'.breakPoint)
     /\ command'.op = "RemoveBreakPoint" =>
          LET k == command'.arg
              list == codeRunner.breakPoint
          IN  IF k \in 1..Len(list)
                THEN /\ message' = "Removed"
                     /\ codeRunner'.breakPoint = Without(list, k)
              ELSE /\ message' = "IndexOutOfRange"
                   /\ codeRunner' = codeRunner]_vars

\* position 1 has been removed from the breakpoints on lines 1, 2 and 4:
\* line 1 is gone, and position 1, which is not in the list as a line, now
\* holds line 2
C27_Witness ==
  /\ codeText = <<"\n", "+", "\n", "\n", ".", "\n", "\n">>
  /\ command = [op |-> "RemoveBreakPoint", arg |-> 1]
  /\ message = "Removed"
  /\ codeRunner.breakPoint = <<2, 4>>

\* C28: the watch list is strictly increasing after every call.  AddWatch
\* of an address in the list reports it as already watched and changes
\* nothing, of any other address, negative ones included, adds it to the
\* list; RemoveWatch(k) removes exactly the address at position k, counted
\* from 1, and for k below 1 or above the length of the list reports the
\* index out of range and changes nothing; ClearWatches empties the list.
C28_WatchList ==
  [][/\ StrictlyIncreasing(codeRunner'.watchAddress)
     /\ command'.op = "AddWatch" =>
          LET addr == command'.arg
              list == codeRunner.watchAddress
          IN  IF addr \in Range(list)
                THEN /\ message' = "AlreadyWatched"
                     /\ codeRunner' = codeRunner
              ELSE /\ message' = "Watching"
                   /\ Range(codeRunner'.watchAddress) = Range(list) \cup {addr}
                   /\ Len(codeRunner'.watchAddress) = Len(list) + 1
     /\ command'.op = "RemoveWatch" =>
          LET k == command'.arg
              list == codeRunner.watchAddress
          IN  IF k \in 1..Len(list)
                THEN /\ message' = "Removed"
                     /\ codeRunner'.watchAddress = Without(list, k)
              ELSE /\ message' = "IndexOutOfRange"
                   /\ codeRunner' = codeRunner
     /\ command'.op = "ClearWatches" => codeRunner'.watchAddress = <<>>]_vars

\* a negative address has been added in front of the addresses watched
C28_Witness ==
  /\ command = [op |-> "AddWatch", arg |-> -1]
  /\ message = "Watching"
  /\ codeRunner.watchAddress = <<-1, 0, 1>>

----------------------------------------------------------------------------
(* The line table *)

\* the positions at which the lines of text start: a line ends with its
\* line feed, and the characters after the last line feed are a line
LineStarts(text) ==
  {p \in 1..Len(text) : p = 1 \/ text[p - 1] = "\n"}

\* the characters of line k, counted from 1
LineText(text, k) ==
  LET from == CHOOSE s \in LineStarts(text) :
                Cardinality({t \in LineStarts(text) : t < s}) = k - 1
      feeds == {q \in from..Len(text) : text[q] = "\n"}
      upto == IF feeds = {} THEN Len(text) ELSE Min(feeds)
  IN  SubSeq(text, from, upto)

\* the operator characters of a line that are left when every '+', '-',
\* '<' or '>' that meets its opposite is taken away together with it
RECURSIVE Cancelled(_, _)
Cancelled(chars, kept) ==
  IF chars = <<>> THEN kept
  ELSE
    LET char == Head(chars)
    IN  IF char \notin OperatorChars THEN Cancelled(Tail(chars), kept)
        ELSE IF /\ char \in SimpleChars
                /\ kept # <<>>
                /\ kept[Len(kept)] = ReverseChar(char)
          THEN Cancelled(Tail(chars), SubSeq(kept, 1, Len(kept) - 1))
        ELSE Cancelled(Tail(chars), Append(kept, char))

\* the number of instructions the line gives: one for each run of a
\* repeated '+', '-', '<' or '>', one for each other operator character
Produced(text, k) ==
  LET kept == Cancelled(LineText(text, k), <<>>)
  IN  Cardinality({i \in 1..Len(kept) :
                     \/ i = 1
                     \/ kept[i] \notin SimpleChars
                     \/ kept[i] # kept[i - 1]})

\* the number of instructions of the first k lines
RECURSIVE ProducedUpTo(_, _)
ProducedUpTo(text, k) ==
  IF k = 0 THEN 0 ELSE ProducedUpTo(text, k - 1) + Produced(text, k)

\* a program with line metadata has been returned
ReturnedWithLines == Returned /\ an.a.debugFlag

\* C29: in a program analysed with line metadata the line table has one
\* entry for every line of the source; the entry of a line is the number
\* of instructions of the lines before it, which is the index of the first
\* instruction of the line when it has one and of the next line that has
\* one otherwise, and it is -1 exactly when no instruction exists from the
\* line on.  Every entry is -1 or the index of an instruction.
C29_LineTable ==
  ReturnedWithLines =>
    LET count == Cardinality(LineStarts(codeText))
        total == ProducedUpTo(codeText, count)
    IN  /\ an.ret.LineCount = count
        /\ Len(an.ret.LineBegins) = count
        /\ an.ret.CodeCount = total
        /\ \A k \in 1..count :
             LET before == ProducedUpTo(codeText, k - 1)
             IN  /\ an.ret.LineBegins[k] = IF before < total THEN before ELSE -1
                 /\ an.ret.LineBegins[k] \in {-1} \cup 0..(an.ret.CodeCount - 1)

\* a blank line before the line of the only instruction, and one after it
C29_Witness ==
  /\ ReturnedWithLines
  /\ codeText = <<"\n", "+", "\n", "\n">>
  /\ an.ret.LineBegins = <<0, 0, -1>>

----------------------------------------------------------------------------
(* Increment and decrement *)

\* from tape to tape' the cell at the pointer has changed by delta modulo
\* 256, and no other cell and not the pointer
ChangedBy(delta) ==
  /\ Peek(tape', 0) = (Peek(tape, 0) + delta) % ByteMod
  /\ \A offset \in ProbeOffsets \ {0} : Peek(tape', offset) = Peek(tape, offset)
  /\ tape'.cur = tape.cur
  /\ tape'.nodes[tape'.cur].ptr = tape.nodes[tape.cur].ptr

\* C30: Add and Sub with operand n change the cell at the pointer to
\* (old + n) mod 256 and (old - n) mod 256, for every n, those of 256 and
\* more included, and leave every other cell and the pointer as they were.
C30_AddSubWrap ==
  [][/\ \A n \in AddValues : tape' = Add(tape, n) => ChangedBy(n)
     /\ \A n \in SubValues : tape' = Sub(tape, n) => ChangedBy(-n)]_vars

\* a cell holds 254 in a block other than the first: with the operands of
\* the model that is a Sub that wrapped below zero
C30_Witness ==
  /\ tape.cur # 1
  /\ \E a \in DOMAIN written : written[a] = 254 /\ Peek(tape, a - address) = 254
  /\ tapeOps >= 3

----------------------------------------------------------------------------
(* The pointer address *)

\* the number of blocks from block from to block to along the next links
\* (forward) or the prev links, -1 when block to is not on that side
RECURSIVE BlocksTo(_, _, _, _)
BlocksTo(nodes, from, to, forward) ==
  IF from = to THEN 0
  ELSE LET link == IF forward THEN nodes[from].next ELSE nodes[from].prev
       IN  IF link = 0 THEN -1
           ELSE LET rest == BlocksTo(nodes, link, to, forward)
                IN  IF rest = -1 THEN -1 ELSE rest + 1

\* the address that the current block of the chain and the position in it
\* designate: the block made by New holds the addresses from
\* -MemoryBlockSize / 2, the blocks after it and before it follow on
BlockAddress(m) ==
  LET after  == BlocksTo(m.nodes, 1, m.cur, TRUE)
      before == BlocksTo(m.nodes, 1, m.cur, FALSE)
      block  == IF after >= 0 THEN after ELSE -before
  IN  block * MemoryBlockSize + m.nodes[m.cur].ptr - MemoryBlockSize \div 2

\* what the operator the runner is about to execute adds to the address
Shift(r) ==
  IF r.codeIndex < 0 \/ r.codeIndex >= Len(r.code.Operators) THEN 0
  ELSE IF NextOperator(r) = "OpMoveRight" THEN r.code.Auxiliary[r.codeIndex + 1]
  ELSE IF NextOperator(r) = "OpMoveLeft" THEN -r.code.Auxiliary[r.codeIndex + 1]
  ELSE 0

\* the current block is on the chain of the block made by New
OnChain(m) ==
  \/ BlocksTo(m.nodes, 1, m.cur, TRUE) >= 0
  \/ BlocksTo(m.nodes, 1, m.cur, FALSE) >= 0

\* C31: the pointer address of the engine is 0 after construction, after
\* run and after reset; every pass of Continue and Step that executes a
\* MoveRight adds its operand to it, one that executes a MoveLeft subtracts
\* its operand, and no other pass or command changes it; and at every
\* moment the current block of the tape and the position in it designate
\* the cell of that address.
C31_PointerAddress ==
  /\ codeRunner.memoryPointer = 0
  /\ [](/\ OnChain(codeRunner.memory)
        /\ BlockAddress(codeRunner.memory) = codeRunner.memoryPointer)
  /\ [][codeRunner'.memoryPointer =
          IF CmdRun \/ CmdReset THEN 0
          ELSE IF InPass
            THEN PassBase.memoryPointer
                   + (IF Pass.ret \in Executed THEN Shift(PassBase) ELSE 0)
          ELSE codeRunner.memoryPointer]_vars

\* the run has moved 520 cells to the right, into the block after the
\* first, and 1040 cells to the left, into the block before it, and has
\* finished at address -520
C31_Witness ==
  /\ lastRet = "ReturnAfterFinish"
  /\ codeRunner.code.Auxiliary = <<520, 1, 1040, 1>>
  /\ codeRunner.memoryPointer = -520
  /\ Len(codeRunner.memory.nodes) = 3
  /\ BlocksTo(codeRunner.memory.nodes, 1, codeRunner.memory.cur, FALSE) = 1
  /\ Peek(codeRunner.memory, 1040) = 1
  /\ Peek(codeRunner.memory, 0) = 255

----------------------------------------------------------------------------
(* The example of the README *)

ReadmeExample ==
  <<"+", "+", "+", "+", "\n", ">", "+", "+", "\n", "[", "-", "]">>

\* Run has returned
RunReturned == call.op # "continue"

\* C32: analysed with line metadata, the example of the README gives the
\* six instructions Add 4, MoveRight 1, Add 2, LeftBracket 6, Sub 1,
\* RightBracket 4, three lines and the line begins 0, 1, 3; its run
\* returns Finished with the pointer at address 1, 4 in the cell at
\* address 0 and 0 in the cell at address 1.
C32_ReadmeExample ==
  (codeText = ReadmeExample /\ codeRunner.debugFlag) =>
    /\ an.err = NoError
    /\ an.ret.Operators = <<"OpAdd", "OpMoveRight", "OpAdd", "OpLeftBracket",
                            "OpSub", "OpRightBracket">>
    /\ an.ret.Auxiliary = <<4, 1, 2, 6, 1, 4>>
    /\ an.ret.CodeCount = 6
    /\ an.ret.LineCount = 3
    /\ an.ret.LineBegins = <<0, 1, 3>>
    /\ codeRunner.code = an.ret
    /\ RunReturned =>
         /\ lastRet = "ReturnAfterFinish"
         /\ codeRunner.memoryPointer = 1
         /\ Peek(codeRunner.memory, -1) = 4
         /\ Peek(codeRunner.memory, 0) = 0
         /\ \A a \in -MaxPointer..MaxPointer :
              a \notin {-1, 0} => Peek(codeRunner.memory, a) = 0

\* the run of the example, analysed with line metadata, has returned
C32_Witness ==
  /\ codeText = ReadmeExample
  /\ codeRunner.debugFlag
  /\ RunReturned
  /\ codeRunner.codeIndex = 6
  /\ output = <<>>

----------------------------------------------------------------------------
(* The end of the program *)

Suspensions == {"ReturnReachBreakPoint", "ReturnReachWatch",
                "ReturnReachUntil", "ReturnReachStop"}

\* the program counter of the runner is past the last instruction
PastEnd(r) == r.codeIndex >= r.code.CodeCount

\* C33 as claimed: a pass of Continue or Step returns Finished exactly when
\* it leaves the program counter past the last instruction and returns no
\* suspension; and run starts from a tape of zeros with the pointer and the
\* program counter at 0.
C33_Claim ==
  /\ InPass =>
       (Pass.ret = "ReturnAfterFinish"
          <=> (PastEnd(Pass.cr) /\ Pass.ret \notin Suspensions))
  /\ Reset(codeRunner).memory = NewMemory
  /\ Reset(codeRunner).memoryPointer = 0
  /\ Reset(codeRunner).codeIndex = 0

----------------------------------------------------------------------------
(* Step after a finished run *)

\* the step command begins while the engine is idle after a finished run
StepAfterFinish ==
  /\ InStep /\ call.first
  /\ lastRet = "ReturnAfterFinish"
  /\ ~CodeRunning

\* the uninterrupted run, started again and after its first instruction
FirstExecuted == PlainStep(PlainReset(plain, stdin))

\* C34 as claimed: Step called while the engine is idle after a finished
\* run resets as Run does and then executes exactly the first instruction
\* (unless that instruction would mutate the cell at a watched address,
\* which the watch check of Step may report instead, C11); it returns
\* Finished when the program ends there and the single-step result
\* otherwise.
C34_Claim ==
  StepAfterFinish =>
    /\ Pass.didReset
    /\ ~(Watched(PassBase) /\ NextOperator(PassBase) \in Mutating) =>
         /\ Pass.ret = (IF PastEnd(FirstExecuted.cr) THEN "ReturnAfterFinish"
                        ELSE "ReturnAfterStep")
         /\ Pass.cr.codeIndex = FirstExecuted.cr.codeIndex
         /\ Pass.cr.memory = FirstExecuted.cr.memory
         /\ Pass.cr.memoryPointer = FirstExecuted.cr.memoryPointer
         /\ Pass.stdin = FirstExecuted.stdin
         /\ Pass.out = FirstExecuted.output
         /\ ~Pass.cr.breakPointUsed /\ ~Pass.cr.untilEnabled

----------------------------------------------------------------------------
(* Input at the end of standard input *)

\* the pass in progress is at an Input with no byte left to read
InputExhausted ==
  /\ InPass
  /\ PassBase.codeIndex < PassBase.code.CodeCount
  /\ NextOperator(PassBase) = "OpInput"
  /\ stdin = <<>>

\* C35: a pass at an Input with standard input exhausted never fails; when
\* it executes the Input, the cell at the pointer holds 0 afterwards,
\* whatever it held, every other cell and the pointer are as before, the
\* program counter is one further and the run goes on or finishes as after
\* any other operator.
C35_InputAtEnd ==
  InputExhausted =>
    /\ Pass.ret # "panic"
    /\ Pass.ret \in Executed =>
         /\ Peek(Pass.cr.memory, 0) = 0
         /\ \A a \in (-MaxPointer..MaxPointer) \ {0} :
              Peek(Pass.cr.memory, a) = Peek(PassBase.memory, a)
         /\ Pass.cr.memoryPointer = PassBase.memoryPointer
         /\ Pass.cr.codeIndex = PassBase.codeIndex + 1
         /\ Pass.stdin = <<>>
         /\ Pass.ret = (IF PastEnd(Pass.cr) THEN "ReturnAfterFinish"
                        ELSE IF InStep THEN "ReturnAfterStep"
                        ELSE "returnAfterExecuteOperator")

\* the pass executes an Input with nothing to read while the cell holds 1
C35_Witness ==
  /\ InputExhausted
  /\ Peek(PassBase.memory, 0) = 1
  /\ Pass.ret \in Executed

----------------------------------------------------------------------------
(* Watch suspensions and the watch list *)

\* C36 as claimed: a pass of Continue or Step returns the watch suspension
\* only while the pointer address is in the watch list.
C36_Claim ==
  (InPass /\ Pass.ret = "ReturnReachWatch") => Watched(PassBase)

----------------------------------------------------------------------------
(* Breakpoint suspensions reported twice *)

\* C37 as claimed: a pass of Continue returns the breakpoint suspension
\* only when no breakpoint suspension was returned at that index since the
\* operator there was last executed (or since run or reset), whatever
\* watch or stop suspension was returned there in between.
C37_Claim ==
  (call.op = "continue" /\ Pass.ret = "ReturnReachBreakPoint") => ~bpReported

----------------------------------------------------------------------------
(* Specification of a run to its end: the debug configuration is set up,   *)
(* run is called, and after every suspension continue is called, with      *)
(* until mode entered or not.  A call of Continue goes on with its loop     *)
(* until it returns, and the caller answers every suspension with           *)
(* continue: weak fairness of the two.                                      *)

\* no run has been started
NotStarted == Prompt /\ lastRet = "none" /\ ~CodeRunning

\* breakpoints, watches and the stop point are set before the run
LiveConfigure == NotStarted /\ (CmdBreak \/ CmdWatch \/ CmdStop)

LiveRun == NotStarted /\ CmdRun

NextLive ==
  \/ LiveConfigure
  \/ LiveRun
  \/ ContinueLoop
  \/ CmdContinue
  \/ CmdUntil

SpecLive ==
  /\ InitSession
  /\ [][NextLive]_vars
  /\ WF_vars(ContinueLoop)
  /\ WF_vars(CmdContinue)

\* C38 as claimed: once run is called, with continue called after every
\* suspension, Finished is returned eventually, whatever breakpoints,
\* watches, stop point and until mode are in place.
C38_Claim ==
  (call.op = "continue") ~> (lastRet = "ReturnAfterFinish")

----------------------------------------------------------------------------
(* The reset command *)

\* the shell is at its prompt and no run or step command was given since
\* the start of the session or the last reset command
IdlePrompt == Prompt /\ lastRet = "none"

\* C39 as claimed: at the prompt after reset, as before the first run, the
\* session is not running: the continue and until commands are refused.
C39_Claim ==
  IdlePrompt => ~CodeRunning /\ ~ENABLED CmdContinue /\ ~ENABLED CmdUntil

----------------------------------------------------------------------------
(* Peek and PeekBytes as queries *)

\* the number of the block that holds address a, 0 for the block made by New
BlockOf(a) == (a + MemoryBlockSize \div 2) \div MemoryBlockSize

\* the number of blocks that follow block from along the next links
\* (forward) or the prev links
RECURSIVE BlocksBeyond(_, _, _)
BlocksBeyond(nodes, from, forward) ==
  LET link == IF forward THEN nodes[from].next ELSE nodes[from].prev
  IN  IF link = 0 THEN 0 ELSE 1 + BlocksBeyond(nodes, link, forward)

\* the chain holds the block of address a
Allocated(m, a) ==
  IF BlockOf(a) >= 0 THEN BlockOf(a) <= BlocksBeyond(m.nodes, 1, TRUE)
  ELSE -BlockOf(a) <= BlocksBeyond(m.nodes, 1, FALSE)

\* C40: for every sampled offset and for the lengths 0, 1 and the largest
\* one (each byte of a longer read is computed on its own, so a shorter
\* read is a prefix of it), PeekBytes leaves the chain as it is
\* (the pointer, every cell, the blocks: none is made by reading) and
\* returns length bytes: for an address in no block of the chain 0, and for
\* every other address the byte last written there.
C40_PeekPure ==
  \A offset \in PeekOffsets, length \in {0, 1, MaxPeekLength} :
    peekTape(tape, offset, length) =
      [memory |-> tape,
       bytes |-> [i \in 1..length |->
                    IF Allocated(tape, address + offset + i - 1)
                      THEN CellAt(written, address + offset + i - 1)
                    ELSE 0]]

\* the tape made by New holds 1 at address 0 and has its one block: a
\* range read from offset 510 ends in the block after it, which does not
\* exist, and one from offset -1 holds the 1
C40_Witness ==
  /\ tapeOps > 0
  /\ address = 0
  /\ written = [a \in {0} |-> 1]
  /\ Len(tape.nodes) = 1
  /\ ~Allocated(tape, 512) /\ Allocated(tape, 511) /\ ~Allocated(tape, -513)
  /\ peekTape(tape, 510, 3).bytes = <<0, 0, 0>>
  /\ peekTape(tape, -1, 3).bytes = <<0, 1, 0>>

====
